---------------------------- MODULE Spec2Model ----------------------------
(***************************************************************************)
(* A model of the light-box ray tracer (src/lightbox.py): the per-frame     *)
(* trace pass of Game.update, the two trace routines Game.trace and        *)
(* Game.trace_color with their recursion, the geometry kernel Physics, the  *)
(* refractive-index tables Material, and the sensor evaluation of Sensor.   *)
(*                                                                         *)
(* Numbers.  Python floats are modelled by integers:                       *)
(*   - positions and distances are whole pixels;                           *)
(*   - unit vectors, refractive indices, intensities, cosines and the      *)
(*     Fresnel shares R and T are fixed-point numbers with four decimals   *)
(*     (the value times SCALE), products being truncated toward zero.      *)
(* The scenes that the model enumerates keep every boundary that a ray     *)
(* meets parallel to an axis and every ray parallel to the x axis, so that *)
(* intersection points, distances, normals and reflected and refracted     *)
(* directions are exact in this arithmetic.  The hits that are taken on    *)
(* their own (SpecHit) have oblique directions, rounded to four decimals.  *)
(* SpecGame follows the Game object from the menu through levels 1 and 2:  *)
(* the states of Game.update and Game.handle, the score and the shop.      *)
(***************************************************************************)
EXTENDS Integers, Sequences, FiniteSets, TLC

\* ------------------------------------------------------------ constants

SCALE == 100 * 100

CURVE_DEPTH == 45

SENSOR_RADIUS == 35

MAX_RAY_DISTANCE == 6000

TIME_PENALTY == 30

MOVE_PENALTY == 200

ITEM_PENALTY == 400

MAX_SCORE == 10000

WHITE == <<255, 255, 255>>

RED == <<255, 80, 80>>

GREEN == <<80, 255, 120>>

ORANGE == <<255, 140, 0>>

YELLOW == <<255, 255, 100>>

BLUE == <<80, 150, 255>>

VIOLET == <<180, 100, 255>>

ItemType ==
    {"plane_mirror", "triangle", "rectangle", "curved_mirror", "concave_lens", "convex_lens"}

PLANE_MIRROR == "plane_mirror"

TRIANGLE == "triangle"

RECTANGLE == "rectangle"

CURVED_MIRROR == "curved_mirror"

CONCAVE_LENS == "concave_lens"

CONVEX_LENS == "convex_lens"

\* SPECTRUM: the (name, colour) pairs in list order; the third component of the
\* source's triples is never read.
SPECTRUM ==
    << <<"red", RED>>, <<"orange", ORANGE>>, <<"yellow", YELLOW>>,
       <<"green", GREEN>>, <<"blue", BLUE>>, <<"violet", VIOLET>> >>

Bands == {"red", "orange", "yellow", "green", "blue", "violet"}

None == <<>>

\* ------------------------------------------------------------ arithmetic

Abs(a) == IF a < 0 THEN -a ELSE a

Min(a, b) == IF a < b THEN a ELSE b

Max(a, b) == IF a > b THEN a ELSE b

\* a / b truncated toward zero (b > 0): the fixed-point quotient.
Q(a, b) == IF a >= 0 THEN a \div b ELSE -((-a) \div b)

\* the product of two fixed-point numbers, as a fixed-point number
FMul(a, b) == Q(a * b, SCALE)

RECURSIVE SqrtSearch(_, _, _)
SqrtSearch(n, lo, hi) ==
    IF lo >= hi THEN lo
    ELSE LET mid == (lo + hi + 1) \div 2
         IN  IF mid * mid <= n THEN SqrtSearch(n, mid, hi)
             ELSE SqrtSearch(n, lo, mid - 1)

\* math.sqrt, rounded down to an integer
ISqrt(n) == SqrtSearch(n, 0, Min(n, 46340))

\* ------------------------------------------------------------ Vector2

Vec(x, y) == <<x, y>>

VAdd(a, b) == <<a[1] + b[1], a[2] + b[2]>>

VSub(a, b) == <<a[1] - b[1], a[2] - b[2]>>

VNeg(a) == <<-a[1], -a[2]>>

\* Vector2.__mul__ by a whole number
VMul(a, s) == <<a[1] * s, a[2] * s>>

\* Vector2.__mul__ of a fixed-point vector by a fixed-point scalar
VFMul(a, s) == <<FMul(a[1], s), FMul(a[2], s)>>

VDot(a, b) == a[1] * b[1] + a[2] * b[2]

\* the dot product of two fixed-point vectors, as a fixed-point number
VFDot(a, b) == Q(VDot(a, b), SCALE)

VLength(a) == ISqrt(VDot(a, a))

\* Vector2.normalize: the fixed-point unit vector of a, (0, 0) for the zero vector
normalize(a) ==
    LET l == VLength(a)
    IN  IF l > 0 THEN <<Q(a[1] * SCALE, l), Q(a[2] * SCALE, l)>> ELSE <<0, 0>>

\* math.cos and math.sin of an angle in degrees, for the quarter turns
CosDeg(deg) == CASE deg % 360 = 0 -> 1 [] deg % 360 = 180 -> -1 [] OTHER -> 0

SinDeg(deg) == CASE deg % 360 = 90 -> 1 [] deg % 360 = 270 -> -1 [] OTHER -> 0

\* Vector2.rotate
rotate(a, deg) ==
    LET c == CosDeg(deg)
        s == SinDeg(deg)
    IN  <<a[1] * c - a[2] * s, a[1] * s + a[2] * c>>

\* ------------------------------------------------------------ Material

\* a faulty variant of set_base_ior: the steps of the Material defaults (0.015)
set_base_ior_default_steps(base) ==
    [b \in Bands |->
        CASE b = "red" -> base
          [] b = "orange" -> base + 150
          [] b = "yellow" -> base + 300
          [] b = "green" -> base + 450
          [] b = "blue" -> base + 600
          [] b = "violet" -> base + 750]

\* Material.set_base_ior: the six indices derived from a base (red) index
set_base_ior(base) ==
    [b \in Bands |->
        CASE b = "red" -> base
          [] b = "orange" -> base + 250
          [] b = "yellow" -> base + 500
          [] b = "green" -> base + 750
          [] b = "blue" -> base + 1000
          [] b = "violet" -> base + 1250]

\* AIR = Material(1.000, ...)
AIR == [b \in Bands |-> SCALE]

\* GLASS = Material(1.500, 1.525, 1.550, 1.575, 1.600, 1.625)
GLASS0 ==
    [b \in Bands |->
        CASE b = "red" -> 15000
          [] b = "orange" -> 15250
          [] b = "yellow" -> 15500
          [] b = "green" -> 15750
          [] b = "blue" -> 16000
          [] b = "violet" -> 16250]

\* Material.get_ior
get_ior(mat, wavelength) ==
    IF wavelength \in Bands THEN mat[wavelength]
    ELSE IF wavelength = "white" THEN Q(mat["red"] + mat["violet"], 2)
    ELSE SCALE

\* ------------------------------------------------------------ Physics

\* Physics.intersect(p1, p2, p3, p4): None, or <<pt, distance from p1>>.
\* |d| < 0.0001 is d = 0 for whole-pixel coordinates; 0 <= t <= 1 and
\* 0 <= u <= 1 are compared after multiplying by d.
intersect(p1, p2, p3, p4) ==
    LET d == (p1[1] - p2[1]) * (p3[2] - p4[2]) - (p1[2] - p2[2]) * (p3[1] - p4[1])
        tn == (p1[1] - p3[1]) * (p3[2] - p4[2]) - (p1[2] - p3[2]) * (p3[1] - p4[1])
        un == -((p1[1] - p2[1]) * (p1[2] - p3[2]) - (p1[2] - p2[2]) * (p1[1] - p3[1]))
        sg == IF d < 0 THEN -1 ELSE 1
    IN  IF d = 0 THEN None
        ELSE IF /\ 0 <= tn * sg /\ tn * sg <= d * sg
                /\ 0 <= un * sg /\ un * sg <= d * sg
             THEN LET pt == <<p1[1] + Q(tn * sg * (p2[1] - p1[1]), d * sg),
                              p1[2] + Q(tn * sg * (p2[2] - p1[2]), d * sg)>>
                  IN  <<pt, VLength(VSub(pt, p1))>>
             ELSE None

\* Physics.reflect
reflect(inc0, n0) ==
    LET inc == normalize(inc0)
        n == normalize(n0)
    IN  normalize(VSub(inc, VFMul(n, 2 * VFDot(inc, n))))

\* sin^2 of the transmitted angle, (n1 / n2)^2 * (1 - cos_i^2)
SinT2(cos_i, n1, n2) ==
    LET ratio == Q(n1 * SCALE, n2)
    IN  FMul(FMul(ratio, ratio), SCALE - FMul(cos_i, cos_i))

\* Physics.refract: None on total internal reflection
refract(inc0, n0, n1, n2) ==
    LET inc == normalize(inc0)
        nn == normalize(n0)
        n == IF VDot(nn, inc) > 0 THEN VNeg(nn) ELSE nn
        ratio == Q(n1 * SCALE, n2)
        cos_i == -VFDot(n, inc)
        sin_t2 == SinT2(cos_i, n1, n2)
    IN  IF sin_t2 > SCALE THEN None
        ELSE LET cos_t == ISqrt((SCALE - sin_t2) * SCALE)
             IN  normalize(VAdd(VFMul(inc, ratio), VFMul(n, FMul(ratio, cos_i) - cos_t)))

\* Physics.normal
normal(p1, p2) ==
    LET dx == p2[1] - p1[1]
        dy == p2[2] - p1[2]
        l == ISqrt(dx * dx + dy * dy)
    IN  IF l > 0 THEN <<Q(-dy * SCALE, l), Q(dx * SCALE, l)>> ELSE <<0, SCALE>>

\* (1 - cos_i)^5
Pow5(x) == FMul(FMul(FMul(FMul(x, x), x), x), x)

\* a faulty variant of fresnel_reflectance: r0 is not squared
fresnel_r0_not_squared(incident0, normal0, n1, n2) ==
    LET incident == normalize(incident0)
        nrm == normalize(normal0)
        cos_i == -VFDot(nrm, incident)
        r0 == Q((n1 - n2) * SCALE, n1 + n2)
    IN  IF n1 > n2 /\ SinT2(cos_i, n1, n2) > SCALE THEN SCALE
        ELSE r0 + FMul(SCALE - r0, Pow5(SCALE - cos_i))

\* a faulty variant of fresnel_reflectance: no case for total internal reflection
fresnel_without_tir(incident0, normal0, n1, n2) ==
    LET incident == normalize(incident0)
        nrm == normalize(normal0)
        cos_i == -VFDot(nrm, incident)
        q == Q((n1 - n2) * SCALE, n1 + n2)
        r0 == FMul(q, q)
    IN  r0 + FMul(SCALE - r0, Pow5(SCALE - cos_i))

\* Physics.fresnel_reflectance
fresnel_reflectance(incident0, normal0, n1, n2) ==
    LET incident == normalize(incident0)
        nrm == normalize(normal0)
        cos_i == -VFDot(nrm, incident)
        q == Q((n1 - n2) * SCALE, n1 + n2)
        r0 == FMul(q, q)
    IN  IF n1 > n2 /\ SinT2(cos_i, n1, n2) > SCALE THEN SCALE
        ELSE r0 + FMul(SCALE - r0, Pow5(SCALE - cos_i))

\* ------------------------------------------------------------ Ray

\* the visibility floor 0.01 and the sensor floor 0.2, as fixed-point numbers
Floor001 == SCALE \div 100

Floor02 == SCALE \div 5

\* Ray.__init__
Ray(pos, dir, color, wave, white, intensity) ==
    [origin |-> pos,
     direction |-> normalize(dir),
     color |-> color,
     wavelength |-> wave,
     is_white |-> (white \/ wave = "white"),
     path |-> <<pos>>,
     active |-> TRUE,
     bounces |-> 0,
     material |-> "AIR",
     intensity |-> intensity,
     distance_traveled |-> 0]

\* origin + direction * dist, in whole pixels
PointAlong(origin, direction, dist) ==
    <<origin[1] + Q(direction[1] * dist, SCALE), origin[2] + Q(direction[2] * dist, SCALE)>>

\* Ray.get_endpoint: MAX_RAY_DISTANCE * max(0, 1 - travelled / MAX_RAY_DISTANCE)
\* is max(0, MAX_RAY_DISTANCE - travelled)
get_endpoint(ray) ==
    LET max_dist == Max(0, MAX_RAY_DISTANCE - ray.distance_traveled)
    IN  PointAlong(ray.origin, ray.direction, Min(2000, max_dist))

\* Game.get_intensity_at_distance
get_intensity_at_distance(distance) ==
    Max(0, SCALE - Q(distance * SCALE, MAX_RAY_DISTANCE))

\* ------------------------------------------------------------ Item

\* the curved edge of a lens at step i of 6: amp * (1 - (2t - 1)^2), t = i / 5,
\* rounded to a whole pixel
Bulge(amp10, i) == Q(amp10 * (25 - (2 * i - 5) * (2 * i - 5)), 250)

\* Item.update_shape, the points rounded to whole pixels (TRIANGLE and
\* CONCAVE_LENS are not placed); the dish of CURVED_MIRROR at step i of 15 is
\* CURVE_DEPTH * (1 - |2t - 1|)^2, t = i / 14
update_shape(type, pos, w, h, rotation) ==
    LET pts ==
          CASE type = RECTANGLE ->
                 << <<-(w \div 2), -(h \div 2)>>, <<w \div 2, -(h \div 2)>>,
                    <<w \div 2, h \div 2>>, <<-(w \div 2), h \div 2>> >>
            [] type = PLANE_MIRROR ->
                 << <<-(w \div 2), 0>>, <<w \div 2, 0>> >>
            [] type = CURVED_MIRROR ->
                 [i \in 1..15 |->
                    <<-(w \div 2) + Q(w * (i - 1), 14),
                      Q(CURVE_DEPTH * (7 - Abs(i - 8)) * (7 - Abs(i - 8)), 49)>>]
            [] type = CONVEX_LENS ->
                 [i \in 1..12 |->
                    IF i <= 6
                    THEN <<-(w \div 2) + Q(w * (i - 1), 5),
                           -(h \div 2) - Bulge(3 * h, i - 1)>>
                    ELSE <<(w \div 2) - Q(w * (i - 7), 5),
                           (h \div 2) + Bulge(3 * h, i - 7)>>]
            [] OTHER -> <<>>
    IN  [i \in 1..Len(pts) |-> VAdd(rotate(pts[i], rotation), pos)]

\* Item.__init__
Item(type, px, py, w, h, rot) ==
    [type |-> type, pos |-> <<px, py>>, width |-> w, height |-> h, rotation |-> rot,
     shape |-> update_shape(type, <<px, py>>, w, h, rot)]

\* Item.get_segments
get_segments(item) ==
    [i \in 1..Len(item.shape) |-> <<item.shape[i], item.shape[(i % Len(item.shape)) + 1]>>]

\* ------------------------------------------------------------ Sensor

\* Sensor.__init__
Sensor(px, py, color, tol) ==
    [pos |-> <<px, py>>, radius |-> SENSOR_RADIUS, color |-> color, tol |-> tol,
     active |-> FALSE, was_active |-> FALSE, is_white |-> (color = WHITE)]

\* one path segment of Sensor.check_hit: the clamped projection of the sensor's
\* centre on p1-p2, (pos - p1).line / len_sq taken as a pixel length along the line
NearSegment(sensor, p1, p2) ==
    LET line == VSub(p2, p1)
        len_sq == VDot(line, line)
        l == ISqrt(len_sq)
        a == Max(0, Min(l, Q(VDot(VSub(sensor.pos, p1), line), l)))
        closest == <<p1[1] + Q(line[1] * a, l), p1[2] + Q(line[2] * a, l)>>
        off == VSub(sensor.pos, closest)
    IN  /\ len_sq > 0
        /\ VDot(off, off) < sensor.radius * sensor.radius

\* Sensor.check_hit
check_hit(sensor, ray) ==
    IF Len(ray.path) < 2 \/ ray.intensity < Floor02 THEN FALSE
    ELSE \E i \in 1..(Len(ray.path) - 1) : NearSegment(sensor, ray.path[i], ray.path[i + 1])

\* a faulty variant of color_match: only the red channel is compared
color_match_red_only(sensor, ray) ==
    IF sensor.is_white THEN ray.is_white
    ELSE IF ray.is_white THEN FALSE
    ELSE Abs(ray.color[1] - sensor.color[1]) <= sensor.tol

\* a faulty variant of color_match: one channel within the tolerance is enough
color_match_any_channel(sensor, ray) ==
    IF sensor.is_white THEN ray.is_white
    ELSE IF ray.is_white THEN FALSE
    ELSE \E i \in 1..3 : Abs(ray.color[i] - sensor.color[i]) <= sensor.tol

\* Sensor.color_match
color_match(sensor, ray) ==
    IF sensor.is_white THEN ray.is_white
    ELSE IF ray.is_white THEN FALSE
    ELSE \A i \in 1..3 : Abs(ray.color[i] - sensor.color[i]) <= sensor.tol

\* a faulty variant of Activated: a sensor that was active stays active
Activated_sticky(sensor, rs) ==
    \/ sensor.active
    \/ \E i \in 1..Len(rs) :
          rs[i].intensity >= Floor02 /\ check_hit(sensor, rs[i]) /\ color_match(sensor, rs[i])

\* the new value of Sensor.active in Sensor.update
Activated(sensor, rs) ==
    \E i \in 1..Len(rs) :
        rs[i].intensity >= Floor02 /\ check_hit(sensor, rs[i]) /\ color_match(sensor, rs[i])

\* a faulty variant of update: active is not cleared first, so it latches
update_latches(sensor, rs) ==
    [sensor EXCEPT !.was_active = sensor.active,
                   !.active = sensor.active \/ Activated(sensor, rs)]

\* Sensor.update, the sensor after the call (the pulse animation is not modelled)
update(sensor, rs) ==
    [sensor EXCEPT !.was_active = sensor.active, !.active = Activated(sensor, rs)]

\* the value Sensor.update returns: the rising edge
update_returns(sensor, rs) ==
    LET s == update(sensor, rs) IN s.active /\ ~s.was_active

\* ------------------------------------------------------------ Level

\* Level.setup for level 10: five coloured sensors on a circle of radius 200
\* about (600, 400), their coordinates rounded to whole pixels, and a white
\* sensor at the centre; a locked light box at (350, 400) pointing along +x.
LevelSensors ==
    << Sensor(600, 600, RED, 30), Sensor(410, 462, ORANGE, 30), Sensor(482, 238, YELLOW, 30),
       Sensor(718, 238, GREEN, 30), Sensor(790, 462, BLUE, 30), Sensor(600, 400, WHITE, 30) >>

LevelBox == [pos |-> <<350, 400>>, angle |-> 0]

LevelBudget == 5

\* Level.setup: the sensors, the budget and the light box of level num (the
\* sensors of level 10 as above)
Level(num) ==
    LET box(x, y, angle, lock_pos, lock_rot) ==
            [pos |-> <<x, y>>, angle |-> angle, lock_pos |-> lock_pos, lock_rot |-> lock_rot]
    IN  CASE num = 1 ->
               [sensors |-> << Sensor(1000, 300, WHITE, 50) >>,
                budget |-> 1, box |-> box(350, 400, 0, FALSE, FALSE)]
          [] num = 2 ->
               [sensors |-> << Sensor(900, 250, WHITE, 50), Sensor(900, 550, WHITE, 50) >>,
                budget |-> 1, box |-> box(350, 400, 0, FALSE, FALSE)]
          [] num = 3 ->
               [sensors |-> << Sensor(1000, 300, RED, 40), Sensor(1000, 500, BLUE, 40) >>,
                budget |-> 1, box |-> box(350, 400, 0, FALSE, FALSE)]
          [] num = 4 ->
               [sensors |-> << Sensor(900, 200, RED, 35), Sensor(900, 320, ORANGE, 35),
                               Sensor(900, 440, YELLOW, 35), Sensor(900, 560, GREEN, 35),
                               Sensor(900, 680, BLUE, 35) >>,
                budget |-> 2, box |-> box(350, 400, 0, FALSE, FALSE)]
          [] num = 5 ->
               [sensors |-> << Sensor(800, 250, YELLOW, 40), Sensor(800, 550, VIOLET, 40) >>,
                budget |-> 2, box |-> box(350, 400, 0, FALSE, FALSE)]
          [] num = 6 ->
               [sensors |-> << Sensor(800, 300, WHITE, 40), Sensor(800, 500, WHITE, 40),
                               Sensor(1000, 300, WHITE, 40), Sensor(1000, 500, WHITE, 40) >>,
                budget |-> 2, box |-> box(450, 400, 45, TRUE, FALSE)]
          [] num = 7 ->
               [sensors |-> << Sensor(300, 200, RED, 35), Sensor(900, 200, BLUE, 35),
                               Sensor(300, 600, VIOLET, 35), Sensor(900, 600, ORANGE, 35) >>,
                budget |-> 3, box |-> box(600, 400, -90, TRUE, FALSE)]
          [] num = 8 ->
               [sensors |-> << Sensor(700, 250, RED, 35), Sensor(850, 400, YELLOW, 35),
                               Sensor(700, 550, GREEN, 35), Sensor(550, 400, BLUE, 35) >>,
                budget |-> 3, box |-> box(350, 400, 0, TRUE, TRUE)]
          [] num = 9 ->
               [sensors |-> << Sensor(600, 400, WHITE, 30), Sensor(400, 300, RED, 35),
                               Sensor(800, 300, BLUE, 35), Sensor(400, 500, GREEN, 35),
                               Sensor(800, 500, VIOLET, 35) >>,
                budget |-> 4, box |-> box(600, 100, 90, TRUE, TRUE)]
          [] OTHER ->
               [sensors |-> LevelSensors, budget |-> LevelBudget,
                box |-> box(LevelBox.pos[1], LevelBox.pos[2], LevelBox.angle, TRUE, TRUE)]

\* LightBox.get_dir
get_dir(box) == <<CosDeg(box.angle) * SCALE, SinDeg(box.angle) * SCALE>>

\* LightBox.get_perp
get_perp(box) == <<-SinDeg(box.angle) * SCALE, CosDeg(box.angle) * SCALE>>

\* ------------------------------------------------------------ Shop

\* Shop.__init__, the fields that bear on the GLASS indices (no shop.json yet)
Shop == [custom_refraction_unlocked |-> FALSE, custom_ior |-> 15000]

\* ------------------------------------------------------------ Game

\* Game.__init__: the fields of the Game object that the model follows; elapsed
\* is the whole seconds of pygame.time.get_ticks() - countdown_start, box is
\* level.box (there is no level yet)
Game0 ==
    [state |-> "menu", level_num |-> 1, moves |-> 0, items_used |-> 0, countdown |-> 3,
     final_score |-> 0, elapsed |-> 0, box |-> None]

\* the Game fields after Game.start_level(n), when level n is unlocked
start_level(g, n) ==
    [g EXCEPT !.level_num = n, !.state = "playing", !.moves = 0, !.items_used = 0,
              !.countdown = 3, !.elapsed = 0, !.box = Level(n).box]

\* the game as Game.start_level(n) leaves it when called from the menu
GameAt(n) == start_level(Game0, n)

\* ------------------------------------------------------------ state

VARIABLES
    items,      \* Game.items: the placed scene elements, in list order
    budget,     \* Level.budget
    sensors,    \* Level.sensors
    GLASS,      \* the module-level Material GLASS (AIR is never written)
    objs,       \* the Ray objects created in the current frame, by identity
    rays,       \* Game.rays: the identities of the frame's output rays, in list order
    stack,      \* the active calls of Game.trace / Game.trace_color, innermost last
    pc,         \* where the host loop is: "idle" (in Game.handle), "ready" (an event was
                \* handled, Game.update is next) or "tracing" (in Game.update)
    emit,       \* Game.update's emitter loop: its variable i and the ray r it traces
    last,       \* history: the kind of the step taken last, the ray it acted on, the ray it made
    just_activated, \* Game.update's local just_activated, as the last frame left it
    ret,        \* the value returned by a function called on its own (None before the call)
    ref,        \* history: a reference scene and the output of the first frame traced in it
    shop,       \* Game.shop: custom_refraction_unlocked and custom_ior (and, where levels
                \* are won, stars, unlocked and completed)
    game        \* the Game object's own fields: state, level_num, moves, items_used,
                \* countdown, final_score, the seconds since countdown_start, and level.box.pos

vars ==
    <<items, budget, sensors, GLASS, objs, rays, stack, pc, emit, last, just_activated, ret, ref,
      shop, game>>

\* ------------------------------------------------------------ bounds

\* the number of Ray objects a frame may create before the model stops following it
MaxRays == 48

\* the number of items the model places (Level.budget allows more)
MaxItems == 2

\* ------------------------------------------------------------ the hit search

\* every <<item index, segment>> of the scene, in the order of the two nested loops
RECURSIVE AllSegments(_, _)
AllSegments(its, k) ==
    IF k > Len(its) THEN <<>>
    ELSE [j \in 1..Len(its[k].shape) |-> <<k, get_segments(its[k])[j]>>]
         \o AllSegments(its, k + 1)

\* a faulty variant of Better: a later valid hit replaces the kept one whatever
\* its distance
Better_keeps_later(best, ray, guard10, its, cand) ==
    LET s == cand[2]
        hit == intersect(ray.origin, get_endpoint(ray), s[1], s[2])
    IN  IF /\ hit # None
           /\ guard10 < 10 * hit[2]
        THEN LET n == normal(s[1], s[2])
             IN  [dist |-> hit[2], pt |-> hit[1],
                  n |-> IF VDot(n, ray.direction) > 0 THEN VNeg(n) ELSE n,
                  item |-> cand[1]]
        ELSE best

\* the loop body of the search: the running best hit after one more segment.
\* guard10 is the minimum-hit-distance guard in tenths of a pixel.
Better(best, ray, guard10, its, cand) ==
    LET s == cand[2]
        hit == intersect(ray.origin, get_endpoint(ray), s[1], s[2])
    IN  IF /\ hit # None
           /\ guard10 < 10 * hit[2]
           /\ (best = None \/ hit[2] < best.dist)
        THEN LET n == normal(s[1], s[2])
             IN  [dist |-> hit[2], pt |-> hit[1],
                  n |-> IF VDot(n, ray.direction) > 0 THEN VNeg(n) ELSE n,
                  item |-> cand[1]]
        ELSE best

RECURSIVE SearchFrom(_, _, _, _, _, _)
SearchFrom(segs, k, best, ray, guard10, its) ==
    IF k > Len(segs) THEN best
    ELSE SearchFrom(segs, k + 1, Better(best, ray, guard10, its, segs[k]), ray, guard10, its)

\* the nearest valid hit of the ray in the scene: None, or
\* [dist, pt, n, item] (best_dist, best_pt, best_n, best_item)
Search(ray, guard10, its) == SearchFrom(AllSegments(its, 1), 1, None, ray, guard10, its)

\* ------------------------------------------------------------ the call stack

\* one call of Game.trace or Game.trace_color: the routine, its ray, the place
\* in its body (pc), the count of loop iterations done (it) and the locals that
\* live across a nested call (was: ray.material when the hit was found)
NewFrame(fn, id) ==
    [fn |-> fn, ray |-> id, pc |-> "loop", it |-> 0,
     branch |-> "", n |-> <<0, 0>>, entering |-> FALSE,
     was |-> "AIR", n1 |-> 0, n2 |-> 0, R |-> 0, T |-> 0, k |-> 0, pending |-> 0]

Top(st) == st[Len(st)]

Pop(st) == SubSeq(st, 1, Len(st) - 1)

SetTop(st, f) == [st EXCEPT ![Len(st)] = f]

\* a faulty variant of StepCap: both loops stop after five turns
StepCap_of_five(fn) == IF fn = "trace" THEN 5 ELSE 5

\* range(20) in Game.trace, range(10) in Game.trace_color
StepCap(fn) == IF fn = "trace" THEN 20 ELSE 10

\* 0.1 < hit[1] in Game.trace, 1.0 < hit[1] in Game.trace_color, in tenths of a pixel
Guard10(fn) == IF fn = "trace" THEN 1 ELSE 10

\* the branch of the routine that an item type selects
Category(type) ==
    IF type \in {PLANE_MIRROR, CURVED_MIRROR} THEN "mirror"
    ELSE IF type \in {TRIANGLE, RECTANGLE} THEN "poly"
    ELSE "lens"

\* a faulty variant of Goto: the routine clears the sensors as it goes
Goto_clears_sensors(o, rs, st, kind, id, made) ==
    /\ objs' = o
    /\ rays' = rs
    /\ stack' = st
    /\ last' = [kind |-> kind, ray |-> id, made |-> made]
    /\ sensors' = LevelSensors
    /\ UNCHANGED <<items, budget, GLASS, pc, emit, just_activated, ret, ref, shop, game>>

\* the variables after a step of a routine
Goto(o, rs, st, kind, id, made) ==
    /\ objs' = o
    /\ rays' = rs
    /\ stack' = st
    /\ last' = [kind |-> kind, ray |-> id, made |-> made]
    /\ UNCHANGED <<items, budget, sensors, GLASS, pc, emit, just_activated, ret, ref, shop, game>>

\* ------------------------------------------------------------ one hit

\* a faulty variant of NoHit: the straight extension counts as a bounce
NoHit_counts_bounce(r) ==
    [r EXCEPT !.distance_traveled = r.distance_traveled + 2000, !.active = FALSE,
              !.path = Append(r.path, PointAlong(r.origin, r.direction, 2000)),
              !.bounces = r.bounces + 1]

\* a faulty variant of NoHit: the ray is left active after its extension
NoHit_stays_active(r) ==
    [r EXCEPT !.distance_traveled = r.distance_traveled + 2000,
              !.path = Append(r.path, PointAlong(r.origin, r.direction, 2000))]

\* the ray after the no-hit branch
NoHit(r) ==
    LET travelled == r.distance_traveled + 2000
        remaining == MAX_RAY_DISTANCE - (travelled - 2000)
    IN  IF travelled >= MAX_RAY_DISTANCE
        THEN [r EXCEPT !.distance_traveled = travelled, !.active = FALSE,
                       !.path = IF remaining > 0
                                THEN Append(r.path, PointAlong(r.origin, r.direction, remaining))
                                ELSE r.path]
        ELSE [r EXCEPT !.distance_traveled = travelled, !.active = FALSE,
                       !.path = Append(r.path, PointAlong(r.origin, r.direction, 2000))]

\* a faulty variant of Arrive: the path restarts at the hit point
Arrive_restarts_path(r, h) ==
    [r EXCEPT !.path = <<h.pt>>,
              !.distance_traveled = r.distance_traveled + h.dist,
              !.origin = h.pt]

\* the ray after "if best_pt:" has recorded the hit
Arrive(r, h) ==
    [r EXCEPT !.path = Append(r.path, h.pt),
              !.distance_traveled = r.distance_traveled + h.dist,
              !.origin = h.pt]

MatIor(tag, G, wavelength) == get_ior(IF tag = "GLASS" THEN G ELSE AIR, wavelength)

\* n1, n2 and the ray's material after the index choice of a dielectric branch:
\* only the lens branch of Game.trace writes ray.material at this point
Indices(fn, branch, r, entering, G) ==
    LET w == r.wavelength
        lens_cases(write) ==
            IF r.material = "GLASS" /\ ~entering
            THEN <<get_ior(G, w), get_ior(AIR, w), r.material>>
            ELSE IF entering
            THEN <<get_ior(AIR, w), get_ior(G, w), IF write THEN "GLASS" ELSE r.material>>
            ELSE <<get_ior(G, w), get_ior(AIR, w), IF write THEN "AIR" ELSE r.material>>
    IN  IF fn = "trace" /\ branch = "poly"
        THEN IF r.is_white
             THEN <<MatIor(r.material, G, "white"), get_ior(G, "white"), r.material>>
             ELSE <<MatIor(r.material, G, w),
                    IF entering THEN get_ior(G, w) ELSE get_ior(AIR, w), r.material>>
        ELSE IF fn = "trace"
        THEN IF r.is_white /\ entering
             THEN <<get_ior(AIR, "white"), get_ior(G, "white"), r.material>>
             ELSE lens_cases(TRUE)
        ELSE IF branch = "poly"
        THEN <<MatIor(r.material, G, w),
               IF entering THEN get_ior(G, w) ELSE get_ior(AIR, w), r.material>>
        ELSE lens_cases(FALSE)

\* whether the reflected sibling is spawned
SpawnsSibling(fn, branch, r, R) ==
    IF fn = "trace" /\ branch = "poly"
    THEN R > Floor001 /\ FMul(r.intensity, R) > Floor001
    ELSE R > Floor001

\* a faulty variant of Sibling: refl_ray.bounces = ray.bounces
Sibling_same_bounces(fn, branch, r, entering, n, R) ==
    [Ray(r.origin, reflect(r.direction, n), r.color, r.wavelength,
         fn = "trace" /\ r.is_white, FMul(r.intensity, R))
     EXCEPT !.distance_traveled = r.distance_traveled, !.bounces = r.bounces]

\* the reflected sibling refl_ray, as it is when its trace call starts
Sibling(fn, branch, r, entering, n, R) ==
    LET refl_dir == reflect(r.direction, n)
        made ==
            IF fn = "trace" /\ branch = "poly"
            THEN Ray(r.origin, refl_dir, r.color, r.wavelength, r.is_white, FMul(r.intensity, R))
            ELSE IF fn = "trace" /\ r.is_white /\ entering
            THEN Ray(r.origin, refl_dir, WHITE, "white", TRUE, FMul(r.intensity, R))
            ELSE Ray(r.origin, refl_dir, r.color, r.wavelength, FALSE, FMul(r.intensity, R))
    IN  [made EXCEPT !.distance_traveled = r.distance_traveled, !.bounces = r.bounces + 1]

\* the routine that traces the reflected sibling
SiblingRoutine(fn, branch, r, entering) ==
    IF fn = "trace" /\ (branch = "poly" \/ (r.is_white /\ entering)) THEN "trace"
    ELSE "trace_color"

\* ray.material after an in-place refraction
NextMaterial(fn, branch, r, entering) ==
    IF fn = "trace" /\ branch = "lens" THEN r.material
    ELSE IF r.material = "AIR" /\ entering THEN "GLASS" ELSE "AIR"

\* the ray after an in-place refraction, or the ray stopped when there is no solution
RefractInPlace(fn, branch, r, f) ==
    LET new_dir == refract(r.direction, f.n, f.n1, f.n2)
    IN  IF new_dir # None
        THEN [kind |-> "refract",
              ray |-> [r EXCEPT !.direction = new_dir,
                                !.material = NextMaterial(fn, branch, r, f.entering),
                                !.intensity = FMul(r.intensity, f.T),
                                !.bounces = r.bounces + 1]]
        ELSE [kind |-> "stop", ray |-> [r EXCEPT !.active = FALSE]]

\* what a dielectric branch does with the transmitted share, after the
\* reflected sibling (if any) has been traced
Transmit(fn, branch, r, f) ==
    LET stop == [kind |-> "stop", ray |-> [r EXCEPT !.active = FALSE]]
        split == [kind |-> "split", ray |-> [r EXCEPT !.active = FALSE]]
    IN  IF fn = "trace" /\ branch = "poly"
        THEN IF f.T > Floor001 /\ FMul(r.intensity, f.T) > Floor001
             THEN IF r.is_white /\ f.entering THEN split
                  ELSE RefractInPlace(fn, branch, r, f)
             ELSE stop
        ELSE IF fn = "trace" /\ r.is_white /\ f.entering
        THEN IF f.T > Floor001 THEN split ELSE [kind |-> "return", ray |-> r]
        ELSE IF f.T > Floor001 THEN RefractInPlace(fn, branch, r, f)
             ELSE stop

\* what a routine does at one hit on a dielectric item, as a value: the ray r
\* has been moved to the hit (Arrive), n is best_n; the outcome holds the index
\* pair, the Fresnel shares, the reflected sibling if one is spawned (with the
\* routine that traces it), and the parent ray after the branch with what the
\* branch did with it ("refract", "split", "stop" or "return")
HitOutcome(fn, branch, r, n, entering, G) ==
    LET idx == Indices(fn, branch, r, entering, G)
        r2 == [r EXCEPT !.material = idx[3]]
        R == fresnel_reflectance(r2.direction, n, idx[1], idx[2])
        f == [NewFrame(fn, 1) EXCEPT !.branch = branch, !.n = n, !.entering = entering,
                                     !.was = r.material, !.n1 = idx[1], !.n2 = idx[2],
                                     !.R = R, !.T = SCALE - R]
        out == Transmit(fn, branch, r2, f)
    IN  [n1 |-> idx[1], n2 |-> idx[2], R |-> R, T |-> SCALE - R,
         sibling |-> IF SpawnsSibling(fn, branch, r2, R)
                     THEN <<Sibling(fn, branch, r2, entering, n, R)>> ELSE <<>>,
         routine |-> IF SpawnsSibling(fn, branch, r2, R)
                     THEN SiblingRoutine(fn, branch, r2, entering) ELSE "",
         kind |-> out.kind, ray |-> out.ray]

\* ------------------------------------------------------------ the routines' steps

\* the white-ray split loop over SPECTRUM, from band f.k on: the ray made in the
\* previous turn is appended to self.rays after its trace_color call has returned
SplitStep(o, rs, st) ==
    LET f == Top(st)
        r == o[f.ray]
        rs1 == IF f.pending # 0 THEN Append(rs, f.pending) ELSE rs
        dir(j) == refract(r.direction, f.n, get_ior(AIR, SPECTRUM[j][1]),
                          get_ior(GLASS, SPECTRUM[j][1]))
        cand == {j \in f.k..Len(SPECTRUM) : dir(j) # None}
    IN  IF cand = {}
        THEN Goto(o, rs1, Pop(st), "split_done", f.ray, 0)
        ELSE LET j == CHOOSE c \in cand : \A d \in cand : c <= d
                 id == Len(o) + 1
                 new_ray == [Ray(r.origin, dir(j), SPECTRUM[j][2], SPECTRUM[j][1], FALSE,
                                 FMul(r.intensity, f.T))
                             EXCEPT !.material = "GLASS",
                                    !.distance_traveled = r.distance_traveled,
                                    !.bounces = r.bounces + 1]
             IN  /\ Len(o) < MaxRays
                 /\ Goto(Append(o, new_ray), rs1,
                         Append(SetTop(st, [f EXCEPT !.pc = "split", !.k = j + 1, !.pending = id]),
                                NewFrame("trace_color", id)),
                         "split", f.ray, id)

\* the part of a dielectric branch after the reflected sibling
TransmitStep(o, rs, st) ==
    LET f == Top(st)
        out == Transmit(f.fn, f.branch, o[f.ray], f)
        o2 == [o EXCEPT ![f.ray] = out.ray]
    IN  CASE out.kind = "split" ->
               SplitStep(o2, rs, SetTop(st, [f EXCEPT !.pc = "split", !.k = 1, !.pending = 0]))
          [] out.kind = "refract" ->
               Goto(o2, rs, SetTop(st, [f EXCEPT !.pc = "loop", !.it = f.it + 1]),
                    "refract", f.ray, 0)
          [] OTHER ->
               Goto(o2, rs, Pop(st), out.kind, f.ray, 0)

\* a hit on a TRIANGLE or RECTANGLE (branch "poly") or on a lens (branch "lens")
DielectricStep(o, rs, st, r1, h, branch) ==
    LET f == Top(st)
        entering == VDot(h.n, VSub(items[h.item].pos, h.pt)) < 0
        idx == Indices(f.fn, branch, r1, entering, GLASS)
        r2 == [r1 EXCEPT !.material = idx[3]]
        R == fresnel_reflectance(r2.direction, h.n, idx[1], idx[2])
        f2 == [f EXCEPT !.branch = branch, !.n = h.n, !.entering = entering,
                        !.was = r1.material,
                        !.n1 = idx[1], !.n2 = idx[2], !.R = R, !.T = SCALE - R]
        o2 == [o EXCEPT ![f.ray] = r2]
        id == Len(o) + 1
    IN  IF SpawnsSibling(f.fn, branch, r2, R)
        THEN /\ Len(o) < MaxRays
             /\ Goto(Append(o2, Sibling(f.fn, branch, r2, entering, h.n, R)),
                     Append(rs, id),
                     Append(SetTop(st, [f2 EXCEPT !.pc = "transmit"]),
                            NewFrame(SiblingRoutine(f.fn, branch, r2, entering), id)),
                     "spawn", f.ray, id)
        ELSE TransmitStep(o2, rs, SetTop(st, f2))

\* one turn of the for loop of Game.trace (fn = "trace") or Game.trace_color
LoopStep(o, rs, st) ==
    LET f == Top(st)
        r == o[f.ray]
        again == SetTop(st, [f EXCEPT !.it = f.it + 1])
    IN  IF f.it >= StepCap(f.fn)
        THEN Goto(o, rs, Pop(st), "exhausted", f.ray, 0)
        ELSE IF ~r.active \/ r.bounces >= 10
        THEN Goto(o, rs, Pop(st), "break", f.ray, 0)
        ELSE IF r.distance_traveled >= MAX_RAY_DISTANCE
        THEN Goto([o EXCEPT ![f.ray].active = FALSE], rs, Pop(st), "budget", f.ray, 0)
        ELSE LET h == Search(r, Guard10(f.fn), items)
             IN  IF h = None
                 THEN Goto([o EXCEPT ![f.ray] = NoHit(r)], rs,
                           IF f.fn = "trace" THEN again ELSE Pop(st), "nohit", f.ray, 0)
                 ELSE LET r1 == Arrive(r, h)
                          kind == Category(items[h.item].type)
                      IN  IF f.fn = "trace"
                             /\ get_intensity_at_distance(r1.distance_traveled) <= Floor001
                          THEN Goto([o EXCEPT ![f.ray] = [r1 EXCEPT !.active = FALSE]], rs,
                                    Pop(st), "faded", f.ray, 0)
                          ELSE IF kind = "mirror"
                          THEN Goto([o EXCEPT ![f.ray] =
                                        [r1 EXCEPT !.direction = reflect(r1.direction, h.n),
                                                   !.bounces = r1.bounces + 1]],
                                    rs, again, "mirror", f.ray, 0)
                          ELSE DielectricStep([o EXCEPT ![f.ray] = r1], rs, st, r1, h, kind)

\* Game.trace: one turn of its loop, up to a nested call or the next turn
trace ==
    /\ stack # <<>>
    /\ Top(stack).fn = "trace" /\ Top(stack).pc = "loop"
    /\ LoopStep(objs, rays, stack)

\* Game.trace_color: one turn of its loop
trace_color ==
    /\ stack # <<>>
    /\ Top(stack).fn = "trace_color" /\ Top(stack).pc = "loop"
    /\ LoopStep(objs, rays, stack)

\* either routine resumes after the call that traced the reflected sibling
transmit ==
    /\ stack # <<>>
    /\ Top(stack).pc = "transmit"
    /\ TransmitStep(objs, rays, stack)

\* Game.trace resumes in the split loop after a trace_color call
split ==
    /\ stack # <<>>
    /\ Top(stack).pc = "split"
    /\ SplitStep(objs, rays, stack)

\* ------------------------------------------------------------ Game.update

\* the ray r of turn i of the emitter loop
Emitted(i) ==
    Ray(PointAlong(game.box.pos, get_perp(game.box), i * 12), get_dir(game.box),
        WHITE, "white", TRUE, SCALE)

\* the rays of self.rays, in order
RayList(o, rs) == [k \in 1..Len(rs) |-> o[rs[k]]]

\* Game.update, state "playing": self.rays = [] and the first turn of the
\* emitter loop up to its call of self.trace
update_begin ==
    /\ pc \in {"idle", "ready"}
    /\ game.state = "playing"
    /\ pc' = "tracing"
    /\ rays' = <<>>
    /\ objs' = <<Emitted(-1)>>
    /\ emit' = [i |-> -1, ray |-> 1]
    /\ stack' = <<NewFrame("trace", 1)>>
    /\ last' = [kind |-> "emit", ray |-> 1, made |-> 1]
    /\ UNCHANGED <<items, budget, sensors, GLASS, just_activated, ret, ref, shop, game>>

\* a faulty variant of update_loop: the traced ray r is not appended to self.rays
update_loop_drops_ray ==
    /\ pc = "tracing" /\ stack = <<>> /\ emit.i < 1
    /\ Len(objs) < MaxRays
    /\ rays' = rays
    /\ objs' = Append(objs, Emitted(emit.i + 1))
    /\ emit' = [i |-> emit.i + 1, ray |-> Len(objs) + 1]
    /\ stack' = <<NewFrame("trace", Len(objs) + 1)>>
    /\ last' = [kind |-> "emit", ray |-> Len(objs) + 1, made |-> Len(objs) + 1]
    /\ UNCHANGED <<items, budget, sensors, GLASS, pc, just_activated, ret, ref, shop, game>>

\* self.trace(r) has returned: self.rays.append(r) and the next turn of the loop
update_loop ==
    /\ pc = "tracing" /\ stack = <<>> /\ emit.i < 1
    /\ Len(objs) < MaxRays
    /\ rays' = Append(rays, emit.ray)
    /\ objs' = Append(objs, Emitted(emit.i + 1))
    /\ emit' = [i |-> emit.i + 1, ray |-> Len(objs) + 1]
    /\ stack' = <<NewFrame("trace", Len(objs) + 1)>>
    /\ last' = [kind |-> "emit", ray |-> Len(objs) + 1, made |-> Len(objs) + 1]
    /\ UNCHANGED <<items, budget, sensors, GLASS, pc, just_activated, ret, ref, shop, game>>

\* what a frame is traced from: the scene items and the GLASS indices (the
\* emitter of the level is locked)
Scene == [items |-> items, glass |-> GLASS]

\* what a frame produces: the output rays in order and the sensors' active flags
Output(o, rs, ss) ==
    [rays |-> RayList(o, rs), active |-> [k \in 1..Len(ss) |-> ss[k].active]]

\* the last self.rays.append(r) and the loop over the level's sensors, state
\* "playing": with every sensor active the countdown starts; the history
\* variable ref keeps the output of the first frame of its scene
update_sensors ==
    /\ pc = "tracing" /\ stack = <<>> /\ emit.i = 1
    /\ game.state = "playing"
    /\ rays' = Append(rays, emit.ray)
    /\ sensors' = [k \in 1..Len(sensors) |-> update(sensors[k], RayList(objs, rays'))]
    /\ just_activated' = \E k \in 1..Len(sensors) :
                              update_returns(sensors[k], RayList(objs, rays'))
    /\ ref' = IF ref.on /\ ~ref.taken /\ Scene = ref.scene
              THEN [ref EXCEPT !.taken = TRUE, !.out = Output(objs, rays', sensors')]
              ELSE ref
    /\ game' = IF \A k \in 1..Len(sensors) : sensors'[k].active
               THEN [game EXCEPT !.state = "countdown", !.elapsed = 0]
               ELSE game
    /\ pc' = "idle"
    /\ last' = [kind |-> "sensors", ray |-> 0, made |-> 0]
    /\ UNCHANGED <<items, budget, GLASS, objs, stack, emit, ret, shop>>

\* ------------------------------------------------------------ Game.handle

\* the item types the player places on the bench
SpawnTypes == {PLANE_MIRROR, RECTANGLE, CONVEX_LENS}

\* where the player drops an item of a type: x of the item's centre (y stays 400)
DragTargets(type) == IF type = PLANE_MIRROR THEN {200, 600, 1200} ELSE {350, 600}

\* the angles the player turns an item of a type to
RotateTargets(type) == IF type = PLANE_MIRROR THEN {0, 90} ELSE {0}

\* an input event was handled in this tick; Game.update runs next
Handled ==
    /\ pc = "idle"
    /\ pc' = "ready"
    /\ last' = [kind |-> "edit", ray |-> 0, made |-> 0]
    /\ UNCHANGED <<sensors, GLASS, objs, rays, stack, emit, just_activated, ret, ref, shop, game>>

\* Game.spawn
spawn ==
    \E t \in SpawnTypes :
        LET w == IF t \in {PLANE_MIRROR, CURVED_MIRROR} THEN 120 ELSE 100
            h == IF t \in {PLANE_MIRROR, CURVED_MIRROR} THEN 20 ELSE 80
        IN  /\ budget > 0
            /\ Len(items) < MaxItems
            /\ items' = Append(items, Item(t, 600, 400, w, h, 0))
            /\ budget' = budget - 1
            /\ Handled

\* Game.remove
remove ==
    \E k \in 1..Len(items) :
        /\ items' = [j \in 1..(Len(items) - 1) |-> IF j < k THEN items[j] ELSE items[j + 1]]
        /\ budget' = budget + 1
        /\ Handled

\* MOUSEMOTION with item.dragging: the item follows the pointer
drag ==
    \E k \in 1..Len(items) : \E x \in DragTargets(items[k].type) :
        /\ x # items[k].pos[1]
        /\ items' = [items EXCEPT ![k] = Item(items[k].type, x, items[k].pos[2],
                                              items[k].width, items[k].height,
                                              items[k].rotation)]
        /\ UNCHANGED budget
        /\ Handled

\* MOUSEMOTION with item.rotating: the item turns with the pointer
turn ==
    \E k \in 1..Len(items) : \E a \in RotateTargets(items[k].type) :
        /\ a # items[k].rotation
        /\ items' = [items EXCEPT ![k] = Item(items[k].type, items[k].pos[1], items[k].pos[2],
                                              items[k].width, items[k].height, a)]
        /\ UNCHANGED budget
        /\ Handled

\* ------------------------------------------------------------ the game

\* Game.start_level(10)
Init ==
    /\ items = <<>>
    /\ budget = LevelBudget
    /\ sensors = LevelSensors
    /\ GLASS = GLASS0
    /\ objs = <<>>
    /\ rays = <<>>
    /\ stack = <<>>
    /\ pc = "idle"
    /\ emit = [i |-> -1, ray |-> 0]
    /\ last = [kind |-> "start", ray |-> 0, made |-> 0]
    /\ just_activated = FALSE
    /\ ret = None
    /\ ref = [on |-> FALSE, taken |-> FALSE, scene |-> None, out |-> None]
    /\ shop = Shop
    /\ game = GameAt(10)

Next ==
    \/ spawn
    \/ remove
    \/ drag
    \/ turn
    \/ update_begin
    \/ update_loop
    \/ update_sensors
    \/ trace
    \/ trace_color
    \/ transmit
    \/ split

Spec == Init /\ [][Next]_vars

\* ------------------------------------------------------------ Sensor.color_match on its own

\* the tolerances Level.setup gives a sensor, and the default of Sensor.__init__
MatchTols == {30, 35, 40, 50}

\* the sensor colours of the levels
MatchColors == {WHITE, RED, ORANGE, YELLOW, GREEN, BLUE, VIOLET}

\* the rays the routines make: the emitted white ray, one ray per band of
\* SPECTRUM, and a ray of white colour that is not flagged white
MatchRays ==
    {Ray(<<350, 400>>, <<SCALE, 0>>, WHITE, "white", TRUE, SCALE),
     Ray(<<350, 400>>, <<SCALE, 0>>, WHITE, "red", FALSE, SCALE)}
    \cup {Ray(<<350, 400>>, <<SCALE, 0>>, SPECTRUM[j][2], SPECTRUM[j][1], FALSE, SCALE) :
            j \in 1..Len(SPECTRUM)}

\* one sensor and one ray, before the call
InitMatch ==
    /\ items = <<>>
    /\ budget = 0
    /\ sensors \in {<<Sensor(600, 400, c, t)>> : c \in MatchColors, t \in MatchTols}
    /\ GLASS = GLASS0
    /\ objs \in {<<r>> : r \in MatchRays}
    /\ rays = <<1>>
    /\ stack = <<>>
    /\ pc = "call"
    /\ emit = [i |-> -1, ray |-> 0]
    /\ last = [kind |-> "start", ray |-> 0, made |-> 0]
    /\ just_activated = FALSE
    /\ ret = None
    /\ ref = [on |-> FALSE, taken |-> FALSE, scene |-> None, out |-> None]
    /\ shop = Shop
    /\ game = GameAt(10)

\* sensor.color_match(ray)
color_match_call ==
    /\ pc = "call"
    /\ ret' = <<color_match(sensors[1], objs[1])>>
    /\ pc' = "returned"
    /\ UNCHANGED <<items, budget, sensors, GLASS, objs, rays, stack, emit, last,
                   just_activated, ref, shop, game>>

NextMatch == color_match_call

SpecMatch == InitMatch /\ [][NextMatch]_vars

\* ------------------------------------------------------------ Shop and the GLASS indices

\* the custom_ior values a shop.json may hold
StoredIors == {-10000, 0, 5000, 11000, 15000, 20000, 30000}

\* what Shop.load reads from shop.json
StoredFiles ==
    {[custom_refraction |-> u, custom_ior |-> v] : u \in BOOLEAN, v \in StoredIors}

\* the values Shop.update_ior is called with
UpdateValues == {5000, 11000, 15500, 20000, 25000}

\* the wavelengths the trace routines pass to get_ior
Wavelengths == Bands \cup {"white"}

\* the variables after a step of the shop that calls GLASS.set_base_ior(base)
SetBase(base) ==
    /\ GLASS' = set_base_ior(base)
    /\ last' = [kind |-> "set_base_ior", ray |-> base, made |-> 0]
    /\ ret' = None
    /\ UNCHANGED <<items, budget, sensors, objs, rays, stack, pc, emit, just_activated, ref, game>>

\* Game.__init__ has built the Shop; its load has not run
InitShop ==
    /\ items = <<>>
    /\ budget = 0
    /\ sensors = <<>>
    /\ GLASS = GLASS0
    /\ objs = <<>>
    /\ rays = <<>>
    /\ stack = <<>>
    /\ pc = "shop"
    /\ emit = [i |-> -1, ray |-> 0]
    /\ last = [kind |-> "start", ray |-> 0, made |-> 0]
    /\ just_activated = FALSE
    /\ ret = None
    /\ ref = [on |-> FALSE, taken |-> FALSE, scene |-> None, out |-> None]
    /\ shop = Shop
    /\ game = GameAt(10)

\* Shop.load with a shop.json present
load ==
    \E d \in StoredFiles :
        /\ pc = "shop"
        /\ shop' = [custom_refraction_unlocked |-> d.custom_refraction,
                    custom_ior |-> d.custom_ior]
        /\ IF d.custom_refraction
           THEN SetBase(d.custom_ior)
           ELSE /\ last' = [kind |-> "load", ray |-> 0, made |-> 0]
                /\ ret' = None
                /\ UNCHANGED <<items, budget, sensors, GLASS, objs, rays, stack, pc, emit,
                               just_activated, ref, game>>

\* Shop.update_ior
update_ior ==
    \E value \in UpdateValues :
        /\ pc = "shop"
        /\ shop' = [shop EXCEPT !.custom_ior = Max(11000, Min(20000, value))]
        /\ SetBase(Max(11000, Min(20000, value)))

\* Shop.clear_all
clear_all ==
    /\ pc = "shop"
    /\ shop' = [custom_refraction_unlocked |-> FALSE, custom_ior |-> 15000]
    /\ SetBase(15000)

\* a trace routine reads an index of GLASS
get_ior_call ==
    \E w \in Wavelengths :
        /\ pc = "shop"
        /\ ret' = <<w, get_ior(GLASS, w)>>
        /\ UNCHANGED <<items, budget, sensors, GLASS, objs, rays, stack, pc, emit, last,
                       just_activated, ref, shop, game>>

NextShop ==
    \/ load
    \/ update_ior
    \/ clear_all
    \/ get_ior_call

SpecShop == InitShop /\ [][NextShop]_vars

\* ------------------------------------------------------------ one hit on its own

\* the direction of the ray at the hit, before Ray.__init__ normalises it: along
\* the face normal, and at about 37, 45, 53 and 76 degrees from it
HitDirections ==
    {<<SCALE, 0>>, <<4000, 3000>>, <<SCALE, SCALE>>, <<3000, 4000>>, <<2000, 8000>>}

\* best_n at the hit: the face normal turned against the ray
HitNormal == <<-SCALE, 0>>

\* a ray that a routine has moved to a hit at (550, 400), 200 pixels from its start
RayAtHit(dir, color, wave, mat, intensity) ==
    [Ray(<<550, 400>>, dir, color, wave, FALSE, intensity)
     EXCEPT !.material = mat, !.distance_traveled = 200,
            !.path = <<<<350, 400>>, <<550, 400>>>>, !.bounces = 1]

\* the rays Game.trace meets at a hit: white rays, their material AIR
TraceRays ==
    {RayAtHit(d, WHITE, "white", "AIR", i) : d \in HitDirections, i \in {SCALE, 480}}

\* the rays Game.trace_color meets at a hit: a coloured ray in either medium,
\* and the white reflected sibling that the lens branch of Game.trace hands over
ColorRays ==
    {RayAtHit(d, SPECTRUM[j][2], SPECTRUM[j][1], m, i) :
        d \in HitDirections, j \in {1, 6}, m \in {"AIR", "GLASS"}, i \in {9500, 480}}
    \cup {RayAtHit(d, WHITE, "white", "AIR", 480) : d \in HitDirections}

\* a routine is at a hit on a dielectric item, the hit recorded
InitHit ==
    /\ items = <<>>
    /\ budget = 0
    /\ sensors = <<>>
    /\ GLASS = GLASS0
    /\ \E fn \in {"trace", "trace_color"} : \E branch \in {"poly", "lens"} :
       \E entering \in BOOLEAN :
          /\ objs \in {<<r>> : r \in IF fn = "trace" THEN TraceRays ELSE ColorRays}
          /\ stack = <<[NewFrame(fn, 1) EXCEPT !.branch = branch, !.n = HitNormal,
                                               !.entering = entering]>>
    /\ rays = <<>>
    /\ pc = "hit"
    /\ emit = [i |-> -1, ray |-> 0]
    /\ last = [kind |-> "start", ray |-> 0, made |-> 0]
    /\ just_activated = FALSE
    /\ ret = None
    /\ ref = [on |-> FALSE, taken |-> FALSE, scene |-> None, out |-> None]
    /\ shop = Shop
    /\ game = GameAt(10)

\* the dielectric branch of the routine, its nested calls left out: ret keeps
\* the outcome, objs[1] the ray as it was at the hit
hit ==
    /\ pc = "hit"
    /\ ret' = <<HitOutcome(Top(stack).fn, Top(stack).branch, objs[1], Top(stack).n,
                           Top(stack).entering, GLASS)>>
    /\ pc' = "done"
    /\ last' = [kind |-> ret'[1].kind, ray |-> 1, made |-> 0]
    /\ UNCHANGED <<items, budget, sensors, GLASS, objs, rays, stack, emit,
                   just_activated, ref, shop, game>>

NextHit == hit

SpecHit == InitHit /\ [][NextHit]_vars

\* ------------------------------------------------------------ Item.get_segments on its own

\* the items whose segments are taken: mirrors (open outlines), a rectangle and
\* a lens (closed outlines), where the player can put and turn them
SegmentItems ==
    {Item(t, x, 400, IF t \in {PLANE_MIRROR, CURVED_MIRROR} THEN 120 ELSE 100,
          IF t \in {PLANE_MIRROR, CURVED_MIRROR} THEN 20 ELSE 80, a) :
        t \in {PLANE_MIRROR, CURVED_MIRROR, RECTANGLE, CONVEX_LENS},
        x \in {200, 350, 600, 1200}, a \in {0, 90, 180, 270}}

\* one item placed, before the call
InitSegments ==
    /\ items \in {<<it>> : it \in SegmentItems}
    /\ budget = LevelBudget - 1
    /\ sensors = LevelSensors
    /\ GLASS = GLASS0
    /\ objs = <<>>
    /\ rays = <<>>
    /\ stack = <<>>
    /\ pc = "call"
    /\ emit = [i |-> -1, ray |-> 0]
    /\ last = [kind |-> "start", ray |-> 0, made |-> 0]
    /\ just_activated = FALSE
    /\ ret = None
    /\ ref = [on |-> FALSE, taken |-> FALSE, scene |-> None, out |-> None]
    /\ shop = Shop
    /\ game = GameAt(10)

\* item.get_segments()
get_segments_call ==
    /\ pc = "call"
    /\ ret' = <<get_segments(items[1])>>
    /\ pc' = "returned"
    /\ UNCHANGED <<items, budget, sensors, GLASS, objs, rays, stack, emit, last,
                   just_activated, ref, shop, game>>

NextSegments == get_segments_call

SpecSegments == InitSegments /\ [][NextSegments]_vars

\* ------------------------------------------------------------ the game from the menu on

\* the moves of one level the model follows (the counter has no cap in the code)
MaxMoves == 4

\* the stars the shop holds before the model stops submitting scores
MaxStars == 5

\* where the player drags the light box of a level that leaves it free
BoxTargets == {<<350, 300>>, <<350, 400>>}

\* the seconds from start_time to the frame that completes a level
PlayTimes == {10, 400}

\* Shop.__init__ without a shop.json: no stars, the plane mirror unlocked,
\* no level completed
ShopFresh ==
    [custom_refraction_unlocked |-> FALSE, custom_ior |-> 15000, stars |-> 0,
     unlocked |-> [t \in ItemType |-> t = PLANE_MIRROR],
     completed |-> [l \in {} |-> 0]]

\* Shop.is_level_unlocked
is_level_unlocked(sh, level_num) ==
    IF level_num <= 1 THEN TRUE
    ELSE (IF (level_num - 1) \in DOMAIN sh.completed THEN sh.completed[level_num - 1] ELSE 0) >= 1

\* Shop.award: the shop after the stars of a submitted score are counted
award(sh, level, stars) ==
    IF level \in DOMAIN sh.completed
    THEN LET prev == sh.completed[level]
         IN  IF stars > prev
             THEN [sh EXCEPT !.stars = sh.stars + (stars - prev), !.completed[level] = stars]
             ELSE IF stars = 3 /\ prev = 3
             THEN [sh EXCEPT !.stars = sh.stars + 1]
             ELSE sh
    ELSE [sh EXCEPT !.stars = sh.stars + stars,
                    !.completed = [l \in DOMAIN sh.completed \cup {level} |->
                                      IF l = level THEN stars ELSE sh.completed[l]]]

\* Game.calc_score, time seconds after start_time
calc_score(g, time) ==
    Max(0, MAX_SCORE - time * TIME_PENALTY - g.moves * MOVE_PENALTY
           - g.items_used * ITEM_PENALTY)

\* Game.get_stars
get_stars(g, score) ==
    LET base == MAX_SCORE - g.level_num * 500
    IN  IF 10 * score >= 9 * base THEN 3
        ELSE IF 4 * score >= 3 * base THEN 2
        ELSE IF 2 * score >= base THEN 1
        ELSE 0

\* a faulty variant of spawn_returns: the budget is not looked at
spawn_returns_any_budget(t) == game.box # None /\ shop.unlocked[t]

\* the value Game.spawn(t) returns: False without a level, without budget left
\* or for a type that is not unlocked
spawn_returns(t) == game.box # None /\ budget > 0 /\ shop.unlocked[t]

\* the program starts: the menu, no level, no shop.json
InitGame ==
    /\ items = <<>>
    /\ budget = 0
    /\ sensors = <<>>
    /\ GLASS = GLASS0
    /\ objs = <<>>
    /\ rays = <<>>
    /\ stack = <<>>
    /\ pc = "idle"
    /\ emit = [i |-> -1, ray |-> 0]
    /\ last = [kind |-> "start", ray |-> 0, made |-> 0]
    /\ just_activated = FALSE
    /\ ret = None
    /\ ref = [on |-> FALSE, taken |-> FALSE, scene |-> None, out |-> None]
    /\ shop = ShopFresh
    /\ game = Game0

\* Game.handle has taken an event (kind); Game.update runs next
Event(kind) ==
    /\ pc = "idle"
    /\ pc' = "ready"
    /\ last' = [kind |-> kind, ray |-> 0, made |-> 0]
    /\ UNCHANGED <<GLASS, objs, stack, emit, just_activated, ref>>

\* the variables after Game.start_level(n): nothing changes for a locked level
StartLevel(n) ==
    IF is_level_unlocked(shop, n)
    THEN /\ game' = start_level(game, n)
         /\ items' = <<>>
         /\ rays' = <<>>
         /\ budget' = Level(n).budget
         /\ sensors' = Level(n).sensors
    ELSE UNCHANGED <<game, items, rays, budget, sensors>>

\* MOUSEBUTTONDOWN in state "menu" on the button of an unlocked level
click_level ==
    \E n \in 1..10 :
        /\ game.state = "menu"
        /\ is_level_unlocked(shop, n)
        /\ StartLevel(n)
        /\ Event("level")
        /\ UNCHANGED <<shop, ret>>

\* MOUSEBUTTONDOWN on a shop button while playing: self.spawn(t)
click_spawn ==
    \E t \in ItemType :
        /\ game.state \in {"playing", "countdown"}
        /\ game.moves < MaxMoves
        /\ ret' = <<spawn_returns(t)>>
        /\ IF spawn_returns(t)
           THEN LET w == IF t \in {PLANE_MIRROR, CURVED_MIRROR} THEN 120 ELSE 100
                    h == IF t \in {PLANE_MIRROR, CURVED_MIRROR} THEN 20 ELSE 80
                IN  /\ items' = Append(items, Item(t, 600, 400, w, h, 0))
                    /\ budget' = budget - 1
                    /\ game' = [game EXCEPT !.items_used = game.items_used + 1,
                                            !.moves = game.moves + 1]
           ELSE UNCHANGED <<items, budget, game>>
        /\ Event("click_spawn")
        /\ UNCHANGED <<sensors, rays, shop>>

\* self.remove(item): item k of self.items, or (k past the end of the list) an
\* item that is not in it; the right click of Game.handle removes a listed item
click_remove ==
    \E k \in 1..(Len(items) + 1) :
        /\ game.state \in {"playing", "countdown"}
        /\ game.moves < MaxMoves
        /\ ret' = <<k>>
        /\ IF k <= Len(items)
           THEN /\ items' = [j \in 1..(Len(items) - 1) |->
                                IF j < k THEN items[j] ELSE items[j + 1]]
                /\ budget' = budget + 1
                /\ game' = [game EXCEPT !.moves = game.moves + 1]
           ELSE UNCHANGED <<items, budget, game>>
        /\ Event("click_remove")
        /\ UNCHANGED <<sensors, rays, shop>>

\* MOUSEMOTION with level.box.dragging: the light box follows the pointer
drag_box ==
    \E p \in BoxTargets :
        /\ game.state \in {"playing", "countdown"}
        /\ ~(game.box.lock_pos /\ game.box.lock_rot)
        /\ p # game.box.pos
        /\ game' = [game EXCEPT !.box.pos = p]
        /\ Event("drag_box")
        /\ UNCHANGED <<items, budget, sensors, rays, shop, ret>>

\* MOUSEBUTTONDOWN on the menu button while playing
click_menu ==
    /\ game.state \in {"playing", "countdown"}
    /\ game' = [game EXCEPT !.state = "menu"]
    /\ Event("menu")
    /\ UNCHANGED <<items, budget, sensors, rays, shop, ret>>

\* state "complete": the score is submitted under a name of three letters
submit ==
    /\ game.state = "complete"
    /\ shop.stars < MaxStars
    /\ shop' = award(shop, game.level_num, get_stars(game, game.final_score))
    /\ game' = [game EXCEPT !.state = "scoreboard"]
    /\ Event("submit")
    /\ UNCHANGED <<items, budget, sensors, rays, ret>>

\* MOUSEBUTTONDOWN in state "scoreboard" on Continue
click_continue ==
    /\ game.state = "scoreboard"
    /\ IF game.level_num < 10
       THEN StartLevel(game.level_num + 1)
       ELSE /\ game' = [game EXCEPT !.state = "menu"]
            /\ UNCHANGED <<items, rays, budget, sensors>>
    /\ Event("continue")
    /\ UNCHANGED <<shop, ret>>

\* Game.update in a state without a level in play
update_other ==
    /\ pc = "ready"
    /\ game.state \notin {"playing", "countdown"}
    /\ pc' = "idle"
    /\ UNCHANGED <<items, budget, sensors, GLASS, objs, rays, stack, emit, last,
                   just_activated, ret, ref, shop, game>>

\* Game.update, state "countdown", up to its first call of self.trace: back to
\* "playing" when a sensor is inactive, else the countdown is read off the
\* clock (e whole seconds after countdown_start, the same as in the frame
\* before or one more) and the emitter loop starts
update_countdown ==
    /\ pc \in {"idle", "ready"}
    /\ game.state = "countdown"
    /\ IF \E k \in 1..Len(sensors) : ~sensors[k].active
       THEN /\ game' = [game EXCEPT !.state = "playing", !.elapsed = 0]
            /\ pc' = "idle"
            /\ last' = [kind |-> "resume", ray |-> 0, made |-> 0]
            /\ UNCHANGED <<rays, objs, emit, stack>>
       ELSE \E e \in {game.elapsed, Min(3, game.elapsed + 1)} :
            /\ game' = [game EXCEPT !.elapsed = e, !.countdown = 3 - e]
            /\ pc' = "tracing"
            /\ rays' = <<>>
            /\ objs' = <<Emitted(-1)>>
            /\ emit' = [i |-> -1, ray |-> 1]
            /\ stack' = <<NewFrame("trace", 1)>>
            /\ last' = [kind |-> "emit", ray |-> 1, made |-> 1]
    /\ UNCHANGED <<items, budget, sensors, GLASS, just_activated, ret, ref, shop>>

\* Game.update, state "countdown", after the emitter loop: the sensors are
\* updated and, with the countdown at 0, the level is complete
update_complete ==
    /\ pc = "tracing" /\ stack = <<>> /\ emit.i = 1
    /\ game.state = "countdown"
    /\ rays' = Append(rays, emit.ray)
    /\ sensors' = [k \in 1..Len(sensors) |-> update(sensors[k], RayList(objs, rays'))]
    /\ \E time \in PlayTimes :
          game' = IF game.countdown <= 0
                  THEN [game EXCEPT !.state = "complete", !.elapsed = 0,
                                    !.final_score = calc_score(game, time)]
                  ELSE game
    /\ pc' = "idle"
    /\ last' = [kind |-> "sensors", ray |-> 0, made |-> 0]
    /\ UNCHANGED <<items, budget, GLASS, objs, stack, emit, just_activated, ret, ref, shop>>

NextGame ==
    \/ click_level
    \/ click_spawn
    \/ click_remove
    \/ drag_box
    \/ click_menu
    \/ submit
    \/ click_continue
    \/ update_other
    \/ update_begin
    \/ trace
    \/ update_loop
    \/ update_sensors
    \/ update_countdown
    \/ update_complete

SpecGame == InitGame /\ [][NextGame]_vars

\* ------------------------------------------------------------ frames replayed in a scene

\* the scene whose first frame is kept for comparison: a rectangle where
\* Game.spawn puts it (the emitted rays split in it; the white sensor stays dark)
RefScene == <<Item(RECTANGLE, 600, 400, 100, 80, 0)>>

\* Game.start_level(10), with the reference scene set
InitReplay ==
    /\ items = <<>>
    /\ budget = LevelBudget
    /\ sensors = LevelSensors
    /\ GLASS = GLASS0
    /\ objs = <<>>
    /\ rays = <<>>
    /\ stack = <<>>
    /\ pc = "idle"
    /\ emit = [i |-> -1, ray |-> 0]
    /\ last = [kind |-> "start", ray |-> 0, made |-> 0]
    /\ just_activated = FALSE
    /\ ret = None
    /\ ref = [on |-> TRUE, taken |-> FALSE,
              scene |-> [items |-> RefScene, glass |-> GLASS0], out |-> None]
    /\ shop = Shop
    /\ game = GameAt(10)

SpecReplay == InitReplay /\ [][Next]_vars

\* ------------------------------------------------------------ properties

\* the rays that exist in the current frame
Live == 1..Len(objs)

\* a pass (Game.trace on an emitted ray, with its nested calls) has returned
PassReturned == pc = "tracing" /\ stack = <<>>

\* C1: when a trace pass has returned, every ray created in it (the emitted
\* ray and every spawned ray) is marked inactive, whichever rule ended it.
C1_PassLeavesAllInactive ==
    PassReturned => \A k \in Live : ~objs[k].active

\* C2 as stated: the nesting depth of trace calls never exceeds 10.
C2_DepthAtMostTen == Len(stack) <= 10

\* a step of a routine's loop on a ray that has reached the bounce cap
C2_CappedTurn ==
    /\ stack # <<>>
    /\ Top(stack).pc = "loop"
    /\ objs[Top(stack).ray].bounces >= 10

\* C2: every nested call is on a ray whose bounce count is strictly greater
\* than its caller's, no call runs more turns of its loop than its step cap, a
\* ray with bounces >= 10 performs no step (its call returns and changes no
\* ray), and the nesting depth never exceeds 11: the call on the emitted ray
\* and one call for each bounce count from 1 to 10.
C2_BoundedNesting ==
    /\ [](/\ Len(stack) <= 11
          /\ \A d \in 1..Len(stack) : stack[d].it <= StepCap(stack[d].fn)
          /\ \A d \in 1..(Len(stack) - 1) :
                objs[stack[d + 1].ray].bounces > objs[stack[d].ray].bounces)
    /\ [][C2_CappedTurn => (objs' = objs /\ rays' = rays /\ stack' = Pop(stack))]_vars

\* C2 witness: eleven calls are nested, the innermost on a ray at the bounce cap
C2_DepthEleven ==
    /\ Len(stack) = 11
    /\ objs[Top(stack).ray].bounces = 10

\* C3: no ray's distance_traveled ever exceeds MAX_RAY_DISTANCE, the no-hit
\* step included.
C3_DistanceCapped ==
    \A k \in Live : objs[k].distance_traveled <= MAX_RAY_DISTANCE

\* a ray that keeps a sensor lit: the three tests of the loop in Sensor.update
Lights(sensor, ray) ==
    ray.intensity >= Floor02 /\ check_hit(sensor, ray) /\ color_match(sensor, ray)

\* C4: a ray whose distance_traveled has reached MAX_RAY_DISTANCE never
\* activates a sensor: a sensor that Sensor.update left active was lit by some
\* ray that has travelled less.
C4_SpentRaysLightNothing ==
    last.kind = "sensors" =>
        \A k \in 1..Len(sensors) :
            sensors[k].active =>
                \E j \in 1..Len(rays) :
                    /\ Lights(sensors[k], objs[rays[j]])
                    /\ objs[rays[j]].distance_traveled < MAX_RAY_DISTANCE

\* the steps in which a ray is reflected by a mirror or refracted in place
Deflects == {"mirror", "refract"}

\* the steps that create a reflected sibling or a coloured ray
Creates == {"spawn", "split"}

\* C5, one step inside a frame: a bounce count changes only by +1, only for the
\* ray that the step reflected or refracted in place at a point it had just
\* hit; a ray the step created starts at its parent's bounces + 1, an emitted
\* ray at 0.
C5_Step ==
    pc = "tracing" =>
        /\ \A k \in Live :
              objs'[k].bounces # objs[k].bounces =>
                  /\ objs'[k].bounces = objs[k].bounces + 1
                  /\ last'.kind \in Deflects /\ last'.ray = k
                  /\ Len(objs'[k].path) >= 2
                  /\ objs'[k].origin = objs'[k].path[Len(objs'[k].path)]
        /\ last'.kind \in Creates =>
              objs'[last'.made].bounces = objs[last'.ray].bounces + 1
        /\ last'.kind = "emit" => objs'[last'.made].bounces = 0

\* C5: every ray has bounces <= 10 at all times, a spawned ray starts at its
\* parent's bounces + 1, and a bounce count changes only by +1 and only in a
\* step in which the ray hit an element and was reflected or refracted in place.
C5_BouncesCounted ==
    /\ [](\A k \in Live : objs[k].bounces \in 0..10)
    /\ [][C5_Step]_vars

\* C5 witness: a reflection has just brought a ray to the cap of 10
C5_CapReachedByReflection ==
    /\ last.kind = "mirror"
    /\ objs[last.ray].bounces = 10

\* C8: in no trace routine does a ray flagged white refract in place into a
\* dielectric (an entering hit) and go on inside it as white light.
C8_NoWhiteRefractionIntoGlass ==
    last.kind = "refract" => ~(objs[last.ray].is_white /\ Top(stack).entering)

\* C9: a ray's medium is AIR or GLASS, and every refraction event switches it
\* to the other one: after an in-place refraction the medium is not the one
\* the ray was in when it hit.
C9_MediumSwitches ==
    /\ \A k \in Live : objs[k].material \in {"AIR", "GLASS"}
    /\ last.kind = "refract" => objs[last.ray].material # Top(stack).was

\* C6, the step that runs Sensor.update on every sensor: was_active takes the
\* old active flag, active is true iff some ray of self.rays has intensity >=
\* 0.2, passes check_hit and passes color_match, and the call returns true iff
\* the flag went from false to true.
C6_Step ==
    last'.kind = "sensors" =>
        /\ \A k \in 1..Len(sensors) :
              /\ sensors'[k].was_active = sensors[k].active
              /\ sensors'[k].active =
                    (\E j \in 1..Len(rays') : Lights(sensors[k], objs[rays'[j]]))
        /\ just_activated' =
              (\E k \in 1..Len(sensors) : ~sensors[k].active /\ sensors'[k].active)

\* C6: Sensor.update stores the old flag, recomputes active from the rays alone
\* (no latching) and returns the rising edge, so a sensor that was already
\* active and is lit again returns false.
C6_UpdateIsEdgeTriggered ==
    /\ [](last.kind = "sensors" =>
            (just_activated <=>
                \E k \in 1..Len(sensors) : sensors[k].active /\ ~sensors[k].was_active))
    /\ [][C6_Step]_vars

\* C6 witness: the second of two consecutive updates with an activating ray
\* set: the white sensor stays active and no rising edge is returned
C6_SecondUpdateNoEdge ==
    /\ last.kind = "sensors"
    /\ sensors[6].active /\ sensors[6].was_active
    /\ ~just_activated

\* C7: a white-seeking sensor matches a ray iff the ray is flagged white; a
\* coloured sensor never matches a white ray; a coloured sensor matches a
\* coloured ray iff each of the three RGB channels differs by at most the
\* tolerance; a red sensor with tolerance 40 matches a (255,80,80) ray and
\* rejects a (255,140,0) ray.
C7_ColorMatch ==
    ret # None =>
        LET sensor == sensors[1]
            ray == objs[1]
            seeks_white == sensor.color = WHITE
        IN  /\ seeks_white => (ret[1] <=> ray.is_white)
            /\ ~seeks_white /\ ray.is_white => ~ret[1]
            /\ ~seeks_white /\ ~ray.is_white =>
                  (ret[1] <=> \A i \in 1..3 :
                                  Abs(ray.color[i] - sensor.color[i]) <= sensor.tol)
            /\ sensor.color = RED /\ sensor.tol = 40 /\ ~ray.is_white =>
                  /\ ray.color = <<255, 80, 80>> => ret[1]
                  /\ ray.color = <<255, 140, 0>> => ~ret[1]

\* C7 witness: the red sensor with tolerance 40 has rejected the orange ray
C7_RedRejectsOrange ==
    /\ ret = <<FALSE>>
    /\ sensors[1].color = RED /\ sensors[1].tol = 40
    /\ objs[1].color = <<255, 140, 0>> /\ ~objs[1].is_white

\* a frame has just ended in the reference scene, after the one that was kept
Replayed ==
    /\ last.kind = "sensors"
    /\ ref.taken
    /\ Scene = ref.scene

\* C10: two frames traced from the same scene items, emitter and GLASS indices
\* produce the same output rays in the same order (paths, bands, intensities,
\* active flags) and the same sensor active flags, whatever the previous
\* frame's rays and the sensors' previous flags were.
C10_SameSceneSameOutput ==
    Replayed => Output(objs, rays, sensors) = ref.out

\* C10 witness: a frame has ended in the reference scene that started from
\* sensor flags other than the ones it produced (the frame before it lit a
\* sensor that this scene leaves dark), and gave the output that was kept
C10_ReplayedFromOtherFlags ==
    /\ Replayed
    /\ \E k \in 1..Len(sensors) : sensors[k].was_active # sensors[k].active
    /\ Output(objs, rays, sensors) = ref.out

\* a call of Game.trace or Game.trace_color is running
InTracer == stack # <<>>

\* C11, one step of a trace routine: the scene items (position, rotation, size,
\* shape), the sensors, the budget and the GLASS indices are left as they were
\* (AIR is never written); the step changes only rays and the ray collection.
C11_Step ==
    InTracer =>
        /\ items' = items /\ sensors' = sensors /\ GLASS' = GLASS /\ budget' = budget
        /\ pc' = pc /\ emit' = emit /\ just_activated' = just_activated

\* C11: Game.trace and Game.trace_color leave every scene item, every sensor and
\* the index tables unchanged, and a sensor's flags change only in the step
\* that runs Sensor.update after the frame's tracing.
C11_TracerLeavesSceneAlone ==
    [][C11_Step /\ (sensors' # sensors => ~InTracer /\ last'.kind = "sensors")]_vars

\* C11 witness: a routine has refracted a ray in a scene with an item while a
\* sensor is active
C11_TracedWithActiveSensor ==
    /\ InTracer /\ last.kind = "refract" /\ items # <<>>
    /\ \E k \in 1..Len(sensors) : sensors[k].active

\* the identities in a ray collection, and whether none occurs twice
Members(rs) == {rs[j] : j \in 1..Len(rs)}

NoDuplicates(rs) == \A i, j \in 1..Len(rs) : i # j => rs[i] # rs[j]

\* C12, the end of the pass: self.rays holds every Ray object of the frame once
C12_EndOfPass ==
    /\ NoDuplicates(rays)
    /\ last.kind = "sensors" => Members(rays) = Live

\* C12, one step inside a routine: the step belongs to the innermost call; the
\* calls below it (the parents waiting for a spawned ray's call to return) keep
\* their place and their locals, and their rays are not touched; a call that
\* starts is on a ray that the step has just created.
C12_Step ==
    InTracer =>
        /\ Len(stack') >= Len(stack) - 1
        /\ \A i \in 1..(Len(stack) - 1) : stack'[i] = stack[i]
        /\ Len(objs') >= Len(objs)
        /\ \A k \in Live : k # Top(stack).ray => objs'[k] = objs[k]
        /\ Len(stack') > Len(stack) =>
              /\ Len(stack') = Len(stack) + 1
              /\ Len(objs') = Len(objs) + 1
              /\ Top(stack').ray = Len(objs')
              /\ Top(stack').pc = "loop" /\ Top(stack').it = 0
              /\ stack'[Len(stack)].pc \in {"transmit", "split"}

\* C12: at the end of a frame's trace pass every ray created in it appears
\* exactly once in self.rays, and the call that traces a spawned ray has
\* returned before the parent's call takes its next step (depth-first).
C12_EveryRayOnceDepthFirst == [](C12_EndOfPass) /\ [][C12_Step]_vars

\* C12 witness: a pass has ended that created reflected siblings and coloured rays
C12_PassWithSpawnedRays ==
    /\ last.kind = "sensors"
    /\ Len(objs) >= 10
    /\ \E k \in Live : ~objs[k].is_white /\ objs[k].bounces > 1
    /\ \E k \in Live : objs[k].is_white /\ objs[k].bounces > 0

\* C13, every state: intensities lie in [0, 1]; the Fresnel share R that a call
\* has computed at a hit lies in [0, 1] and T = 1 - R.
C13_Ranges ==
    /\ \A k \in Live : objs[k].intensity >= 0 /\ objs[k].intensity <= SCALE
    /\ \A i \in 1..Len(stack) :
          stack[i].branch # "" =>
              /\ stack[i].R >= 0 /\ stack[i].R <= SCALE
              /\ stack[i].T = SCALE - stack[i].R

\* C13, one step inside a routine: no ray's intensity grows, and a ray that the
\* step creates starts with at most the intensity its parent had at the spawn.
C13_Step ==
    InTracer =>
        /\ \A k \in Live : objs'[k].intensity <= objs[k].intensity
        /\ last'.kind \in Creates =>
              objs'[last'.made].intensity <= objs[last'.ray].intensity

\* C13: every ray's intensity stays in [0, 1] and never increases, every
\* spawned ray starts with an intensity no greater than its parent's at the
\* spawn, and the Fresnel share R used at a hit lies in [0, 1] with T = 1 - R.
C13_IntensityNeverGrows == [](C13_Ranges) /\ [][C13_Step]_vars

\* C13 witness: a ray that has lost intensity to a reflected sibling has been
\* refracted in place
C13_RefractedWithLoss ==
    /\ InTracer /\ last.kind = "refract"
    /\ Top(stack).R > 0
    /\ objs[last.ray].intensity > 0 /\ objs[last.ray].intensity < SCALE

\* C14: after set_base_ior(b) the six indices are b, b + 0.025, b + 0.050,
\* b + 0.075, b + 0.100, b + 0.125 for red, orange, yellow, green, blue, violet,
\* strictly increasing in that order; get_ior("white") is the mean of the red
\* and violet indices; the initial GLASS table is the result of set_base_ior(1.5).
C14_SetBaseIor ==
    /\ set_base_ior(15000) = GLASS0
    /\ last.kind = "set_base_ior" =>
          /\ GLASS["red"] = last.ray
          /\ GLASS["orange"] = last.ray + 250
          /\ GLASS["yellow"] = last.ray + 500
          /\ GLASS["green"] = last.ray + 750
          /\ GLASS["blue"] = last.ray + 1000
          /\ GLASS["violet"] = last.ray + 1250
          /\ \A j \in 1..(Len(SPECTRUM) - 1) :
                GLASS[SPECTRUM[j][1]] < GLASS[SPECTRUM[j + 1][1]]
    /\ ret # None =>
          /\ ret[1] \in Bands => ret[2] = GLASS[ret[1]]
          /\ ret[1] = "white" => 2 * ret[2] = GLASS["red"] + GLASS["violet"]

\* C14 witness: the white index has been read after set_base_ior with a base
\* other than 1.5
C14_WhiteReadAfterSetBase ==
    /\ last.kind = "set_base_ior" /\ last.ray # 15000
    /\ ret # None /\ ret[1] = "white"

\* C15: after any sequence of Shop.load, Shop.update_ior and Shop.clear_all,
\* with their set_base_ior calls, no GLASS index that a trace routine reads is
\* zero or negative.
C15_GlassIndicesPositive ==
    /\ \A w \in Wavelengths : get_ior(GLASS, w) > 0
    /\ ret # None => ret[2] > 0

\* Physics.refract has no solution for the hit that the call has handled
NoRefraction == refract(objs[1].direction, Top(stack).n, ret[1].n1, ret[1].n2) = None

\* C16: whenever Physics.refract has no solution at a hit, which is when
\* n1 > n2 and sin^2 of the transmitted angle exceeds 1, the Fresnel share R is
\* exactly 1.0 and T is 0; the reflected sibling is spawned with the parent's
\* whole intensity, and the parent is made inactive at the hit with its
\* direction unchanged.
C16_TotalInternalReflection ==
    pc = "done" =>
        /\ NoRefraction <=>
              /\ ret[1].n1 > ret[1].n2
              /\ SinT2(-VFDot(Top(stack).n, objs[1].direction), ret[1].n1, ret[1].n2) > SCALE
        /\ NoRefraction =>
              /\ ret[1].R = SCALE /\ ret[1].T = 0
              /\ ret[1].sibling # <<>>
              /\ ret[1].sibling[1].intensity = objs[1].intensity
              /\ ret[1].sibling[1].direction = reflect(objs[1].direction, Top(stack).n)
              /\ ret[1].kind = "stop"
              /\ ~ret[1].ray.active
              /\ ret[1].ray.direction = objs[1].direction
              /\ ret[1].ray.intensity = objs[1].intensity

\* C16 witness: Game.trace_color has handled a hit of a red ray on the inside of
\* a polygon's face, beyond the critical angle
C16_RedRayTotallyReflected ==
    /\ pc = "done" /\ NoRefraction
    /\ Top(stack).fn = "trace_color" /\ Top(stack).branch = "poly"
    /\ objs[1].wavelength = "red" /\ objs[1].material = "GLASS" /\ ~Top(stack).entering

\* the call f has handled a hit at which its white ray, in air, met a
\* dielectric item from outside
WhiteEntry(f) ==
    /\ f.branch # "" /\ f.entering /\ f.was = "AIR"
    /\ objs[f.ray].is_white

\* C17: a white ray that enters a dielectric from air produces six coloured
\* descendants, one per band of SPECTRUM, each bent by its own index: it is
\* never refracted in place as one ray, and when its split has ended self.rays
\* holds a coloured ray of every band that starts at the hit.
C17_WhiteEntryMakesSix ==
    /\ InTracer /\ last.kind = "refract" => ~WhiteEntry(Top(stack))
    /\ last.kind = "split_done" =>
          \A j \in 1..Len(SPECTRUM) :
              \E k \in Members(rays) :
                  /\ objs[k].wavelength = SPECTRUM[j][1] /\ ~objs[k].is_white
                  /\ objs[k].path[1] = objs[last.ray].origin

\* C18: a reflected sibling is spawned only if the parent's intensity times R
\* exceeds 0.01 (the sibling starts with that product), and so every ray of
\* self.rays has an intensity above 0.01.
C18_NoFaintRays ==
    /\ last.kind = "spawn" => objs[last.made].intensity > Floor001
    /\ \A k \in Members(rays) : objs[k].intensity > Floor001

\* the ray of the call f as it was at the hit that f has handled, before the
\* index choice wrote its material
RayAsHit(f) == [objs[f.ray] EXCEPT !.material = f.was]

\* two outcomes of a hit agree: index pair, Fresnel shares, reflected sibling,
\* what became of the transmitted share, and the ray after the hit
SameOutcome(a, b) ==
    /\ a.n1 = b.n1 /\ a.n2 = b.n2 /\ a.R = b.R /\ a.T = b.T
    /\ a.sibling = b.sibling
    /\ a.kind = b.kind
    /\ a.ray = b.ray

\* C19: Game.trace and Game.trace_color behave alike at a hit. For every call
\* that has handled a hit of a white ray (both routines are handed white rays)
\* on a dielectric item, farther than either minimum-hit-distance guard, the
\* two routines give the same outcome on the ray as it was at the hit, and
\* Game.trace would not have ended the ray there for its attenuation.
C19_RoutinesAgreeAtHit ==
    \A i \in 1..Len(stack) :
        (stack[i].pc = "transmit" /\ objs[stack[i].ray].is_white) =>
            /\ SameOutcome(
                  HitOutcome("trace", stack[i].branch, RayAsHit(stack[i]), stack[i].n,
                             stack[i].entering, GLASS),
                  HitOutcome("trace_color", stack[i].branch, RayAsHit(stack[i]), stack[i].n,
                             stack[i].entering, GLASS))
            /\ get_intensity_at_distance(objs[stack[i].ray].distance_traveled) > Floor001

\* two outcomes of a hit take the same decisions: index pair, whether a
\* reflected sibling is spawned, what becomes of the transmitted share, and the
\* medium and active flag the ray is left with
SameDecisions(a, b) ==
    /\ a.n1 = b.n1 /\ a.n2 = b.n2
    /\ (a.sibling = <<>>) = (b.sibling = <<>>)
    /\ a.kind = b.kind
    /\ a.ray.material = b.ray.material
    /\ a.ray.active = b.ray.active

\* C20: within a routine the lens branch handles a hit as the polygon branch
\* does. For every call that has handled a hit on a dielectric item, the two
\* branches of its routine take the same decisions on the ray as it was at the
\* hit, with the same normal and entering flag.
C20_LensLikePolygon ==
    \A i \in 1..Len(stack) :
        stack[i].pc = "transmit" =>
            SameDecisions(
                HitOutcome(stack[i].fn, "poly", RayAsHit(stack[i]), stack[i].n,
                           stack[i].entering, GLASS),
                HitOutcome(stack[i].fn, "lens", RayAsHit(stack[i]), stack[i].n,
                           stack[i].entering, GLASS))

\* the segments of an item's outline as it is drawn: between consecutive
\* points, with the segment that closes the loop for the closed outlines only
Outline(item) ==
    LET k == Len(item.shape)
        open == item.type \in {PLANE_MIRROR, CURVED_MIRROR}
    IN  [i \in 1..(IF open THEN k - 1 ELSE k) |-> <<item.shape[i], item.shape[(i % k) + 1]>>]

\* the nearest hit of an emitted ray in the scene lies on the outline of an item
HitsOnOutline(i) ==
    LET r == Emitted(i)
        h == Search(r, Guard10("trace"), items)
    IN  h # None =>
            \E j \in 1..Len(Outline(items[h.item])) :
                LET s == Outline(items[h.item])[j]
                    x == intersect(r.origin, get_endpoint(r), s[1], s[2])
                IN  x # None /\ x[2] = h.dist

\* C21: Item.get_segments returns the k - 1 segments between consecutive points
\* for an open outline of k points (plane mirror, curved mirror), without a
\* segment from the last point back to the first, and the closed loop for the
\* other items; the nearest hit of a ray is on the item's outline.
C21_OpenOutlineStaysOpen ==
    pc = "returned" =>
        /\ ret[1] = Outline(items[1])
        /\ \A i \in {-1, 0, 1} : HitsOnOutline(i)

\* the ray a trace routine is about to step, and the guard of that routine
Stepping == stack # <<>> /\ Top(stack).pc = "loop" /\ Top(stack).it < StepCap(Top(stack).fn)

SteppedRay == objs[Top(stack).ray]

\* every <<item index, segment index>> of the scene
SegmentIds == UNION {{<<k, j>> : j \in 1..Len(items[k].shape)} : k \in 1..Len(items)}

\* the intersection of the stepped ray with a segment: None or <<pt, dist>>
HitOn(c) ==
    LET s == get_segments(items[c[1]])[c[2]]
    IN  intersect(SteppedRay.origin, get_endpoint(SteppedRay), s[1], s[2])

\* the segments the stepped ray meets beyond the guard of its routine
ValidHits == {c \in SegmentIds : HitOn(c) # None /\ Guard10(Top(stack).fn) < 10 * HitOn(c)[2]}

\* the hit h is the one of segment c, its normal turned against the ray
HitOf(h, c) ==
    LET s == get_segments(items[c[1]])[c[2]]
        n == normal(s[1], s[2])
    IN  /\ h.dist = HitOn(c)[2]
        /\ h.pt = HitOn(c)[1]
        /\ h.item = c[1]
        /\ h.n \in {n, VNeg(n)}
        /\ VDot(h.n, SteppedRay.direction) <= 0

\* C22: in each trace step the kept hit is the intersection of smallest
\* distance among those, over every segment of every item, whose distance
\* exceeds the guard of the routine (0.1 in trace, 1.0 in trace_color); none is
\* kept when there is none; the recorded point, normal and item are those of
\* the chosen segment, the normal turned to oppose the ray's direction.
C22_NearestValidHit ==
    Stepping =>
        LET h == Search(SteppedRay, Guard10(Top(stack).fn), items)
        IN  IF ValidHits = {} THEN h = None
            ELSE /\ h # None
                 /\ \E c \in ValidHits : HitOf(h, c)
                 /\ \A c \in ValidHits : h.dist <= HitOn(c)[2]

\* a step with valid hits at two distances on two items, a hit within the
\* guard that is passed over, and a kept normal that was turned around
C22_NearestOfSeveral ==
    /\ Stepping
    /\ \E c, d \in ValidHits : c[1] # d[1] /\ HitOn(c)[2] < HitOn(d)[2]
    /\ \E c \in SegmentIds \ ValidHits : HitOn(c) # None
    /\ LET h == Search(SteppedRay, Guard10(Top(stack).fn), items)
       IN  \E c \in ValidHits :
             LET s == get_segments(items[c[1]])[c[2]]
             IN  HitOf(h, c) /\ h.n = VNeg(normal(s[1], s[2])) /\ h.n # normal(s[1], s[2])

\* C23, one step: a step of a trace routine that finds no valid hit appends
\* exactly one point to the ray's path, on the ray's line ahead of the origin
\* and no farther from it than the travel budget that was left, marks the ray
\* inactive, and leaves its direction, intensity, bounces and medium as they were.
C23_Step ==
    (Stepping /\ last'.kind = "nohit" /\ objs' # objs) =>
        LET r == SteppedRay
            r1 == objs'[Top(stack).ray]
            v == VSub(r1.path[Len(r1.path)], r.origin)
        IN  /\ last'.ray = Top(stack).ray
            /\ Len(r1.path) = Len(r.path) + 1
            /\ SubSeq(r1.path, 1, Len(r.path)) = r.path
            /\ v[1] * r.direction[2] - v[2] * r.direction[1] = 0
            /\ VDot(v, r.direction) >= 0
            /\ VLength(v) <= MAX_RAY_DISTANCE - r.distance_traveled
            /\ ~r1.active
            /\ r1.direction = r.direction
            /\ r1.intensity = r.intensity
            /\ r1.bounces = r.bounces
            /\ r1.material = r.material
            /\ \A k \in Live \ {Top(stack).ray} : objs'[k] = objs[k]

\* C23: the no-hit branch of Game.trace and Game.trace_color (C23_Step at every step)
C23_NoHitExtendsOnce == [][C23_Step]_vars

\* a coloured ray, already deflected, has just been extended without a hit and
\* is inactive
C23_DeflectedRayExtended ==
    /\ last.kind = "nohit"
    /\ ~objs[last.ray].active
    /\ ~objs[last.ray].is_white
    /\ objs[last.ray].bounces > 1
    /\ Len(objs[last.ray].path) >= 3

\* C24, one step within a pass: a ray that is inactive is left exactly as it
\* is (path, origin, direction, intensity, bounces, distance, medium, and it
\* stays inactive); every ray's path only grows at its end; a ray the step
\* created has a path that starts at the point it was created at.
C24_Step ==
    (pc = "tracing" /\ pc' = "tracing") =>
        /\ Len(objs') >= Len(objs)
        /\ \A k \in Live :
              /\ ~objs[k].active => objs'[k] = objs[k]
              /\ Len(objs'[k].path) >= Len(objs[k].path)
              /\ SubSeq(objs'[k].path, 1, Len(objs[k].path)) = objs[k].path
        /\ \A k \in (1..Len(objs')) \ Live :
              /\ last'.made = k
              /\ objs'[k].path = <<objs'[k].origin>>

\* C24: within a pass the terminated state of a ray is absorbing and paths are
\* append-only with the creation point first (C24_Step at every step).
C24_TerminatedIsAbsorbing == [][C24_Step]_vars

\* a pass has returned with a reflected sibling that ended before its parent
\* went on: the sibling is inactive, the parent's path kept growing after it
C24_EndedRaysKept ==
    /\ PassReturned
    /\ \E k, j \in Live :
          /\ k < j
          /\ ~objs[j].active /\ objs[j].bounces > objs[k].bounces
          /\ Len(objs[k].path) >= 3
          /\ objs[k].path[1] # objs[j].path[1]
          /\ objs[j].path[1] \in {objs[k].path[i] : i \in 1..Len(objs[k].path)}

\* C25: a reflected sibling spawned at a dielectric or lens hit starts in the
\* medium its parent was in when it reached the hit (GLASS for a sibling
\* reflected back into the glass from an inside face).
C25_SiblingStartsInParentMedium ==
    (last.kind = "spawn" /\ Len(stack) >= 2) =>
        objs[last.made].material = stack[Len(stack) - 1].was

\* the <<colour, tolerance>> of every coloured sensor of levels 1 to 10
LevelColoured ==
    UNION {{<<Level(n).sensors[k].color, Level(n).sensors[k].tol>> :
                k \in {j \in 1..Len(Level(n).sensors) : ~Level(n).sensors[j].is_white}} :
           n \in 1..10}

\* C29: a coloured sensor of levels 1 to 10 (tolerance 30, 35 or 40) matches
\* exactly the rays of its own band's colour: color_match rejects the rays of
\* the other five bands and the white rays.
C29_OwnBandOnly ==
    (ret # None /\ <<sensors[1].color, sensors[1].tol>> \in LevelColoured) =>
        /\ sensors[1].tol \in {30, 35, 40}
        /\ ret[1] <=> (~objs[1].is_white /\ objs[1].color = sensors[1].color)

\* the blue sensor of level 7 (tolerance 35) has rejected the violet ray, the
\* band whose colour is nearest to its own
C29_BlueRejectsViolet ==
    /\ ret = <<FALSE>>
    /\ <<sensors[1].color, sensors[1].tol>> = <<Level(7).sensors[2].color, Level(7).sensors[2].tol>>
    /\ sensors[1].color = BLUE
    /\ objs[1].color = VIOLET /\ ~objs[1].is_white

\* C26: the state is "complete" only when the sensor evaluation of the frame
\* that completed the level left every sensor active; an element moved during
\* the countdown so that a sensor is no longer hit sends the game back to
\* "playing", never to "complete" with an inactive sensor.
C26_CompleteOnlyWithAllActive ==
    (game.state = "complete" /\ last.kind = "sensors") =>
        \A k \in 1..Len(sensors) : sensors[k].active

\* C27, one step: Continue in state "scoreboard" leaves that state, for the
\* next level in state "playing" below level 10 and for the menu at level 10.
C27_Step ==
    (game.state = "scoreboard" /\ last'.kind = "continue" /\ pc = "idle" /\ pc' = "ready") =>
        /\ game'.state = (IF game.level_num < 10 THEN "playing" ELSE "menu")
        /\ game.level_num < 10 => game'.level_num = game.level_num + 1

\* C27: from "scoreboard", Continue always leaves that state, also when the
\* level just submitted earned 0 stars and had not been completed before
\* (C27_Step at every step).
C27_ContinueLeavesScoreboard == [][C27_Step]_vars

\* C28, one step: a spawn that returns False leaves items, budget, items_used
\* and moves as they were, and so does the removal of an item that is not placed.
C28_Step ==
    (pc = "idle" /\ pc' = "ready") =>
        /\ (last'.kind = "click_spawn" /\ ret' = <<FALSE>>) =>
              /\ items' = items /\ budget' = budget
              /\ game'.items_used = game.items_used /\ game'.moves = game.moves
        /\ (last'.kind = "click_remove" /\ ret'[1] > Len(items)) =>
              /\ items' = items /\ budget' = budget
              /\ game'.items_used = game.items_used /\ game'.moves = game.moves

\* C28: within a level, after any sequence of spawn and remove calls, the
\* budget is not negative and budget + number of placed items is the level's
\* initial budget; a spawn that returns False (budget exhausted, type locked)
\* and the removal of an unplaced item change nothing (C28_Step at every step).
C28_BudgetConserved ==
    /\ [](game.box # None =>
            /\ budget >= 0
            /\ budget + Len(items) = Level(game.level_num).budget)
    /\ [][C28_Step]_vars

\* with the budget of the level spent on a placed mirror, after an earlier
\* removal, a spawn has just returned False
C28_SpawnRefusedWithoutBudget ==
    /\ last.kind = "click_spawn" /\ ret = <<FALSE>>
    /\ budget = 0 /\ Len(items) = 1
    /\ game.items_used = 2 /\ game.moves = 3

\* C30: the step caps (20 turns in Game.trace, 10 in Game.trace_color) are
\* never the reason a ray stops: no loop runs out of turns, because a call of
\* trace_color starts on a ray with bounces >= 1, every turn that leaves the ray
\* going adds one to its bounces, and a ray with bounces >= 10, an inactive ray
\* or a spent travel budget ends the loop at the head of the next turn.
C30_StepCapsNeverBind ==
    /\ last.kind # "exhausted"
    /\ \A i \in 1..Len(stack) :
          stack[i].pc = "loop" =>
              LET f == stack[i]
                  r == objs[f.ray]
              IN  /\ f.it < StepCap(f.fn)
                  /\ f.fn = "trace_color" => (r.bounces >= 1 /\ f.it <= r.bounces - 1)
                  /\ f.fn = "trace" => (f.it <= r.bounces + 1 /\ (r.active => f.it <= r.bounces))

\* a loop has just ended at the head of its eleventh turn, on an active ray
\* that had reached the bounce cap
C30_EndedByBounceCap ==
    /\ last.kind = "break"
    /\ objs[last.ray].active
    /\ objs[last.ray].bounces = 10
    /\ Len(objs[last.ray].path) = 11

=============================================================================
